---- MODULE Spec2Model ----
(***************************************************************************)
(* Message pre-processing service (n8n-monique): normalizer, lemmatizer,   *)
(* classifier, scope detector, payload builder and result cache.           *)
(*                                                                         *)
(* Texts are TLA+ strings; a character is a string of length 1.  The       *)
(* Python operators the code uses on str ("in", split, strip, startswith,  *)
(* endswith, lower, regex word boundaries) are defined below by what they  *)
(* compute.                                                                *)
(***************************************************************************)
EXTENDS Integers, Sequences, FiniteSets, TLC

(***************************************************************************)
(* Bounds of the model.                                                    *)
(***************************************************************************)
\* number of requests a behaviour may contain
MaxRequests == 3
\* largest value of the clock (in ticks)
MaxTime == 3
\* capacity of the result cache (TTLCache maxsize, scaled down)
CacheMaxSize == 1
\* time-to-live of a cache entry in ticks (TTLCache ttl, scaled down)
CacheTTL == 2
\* calls made into the lemmatizer on its own
MaxChamadas == 4

(***************************************************************************)
(* Python str primitives.                                                  *)
(***************************************************************************)
\* the i-th character of s
CharAt(s, i) == SubSeq(s, i, i)

\* p in t  (substring test)
In(p, t) == \E i \in 1..(Len(t) - Len(p) + 1) : SubSeq(t, i, i + Len(p) - 1) = p

\* any(p in t for p in lista)
AnyIn(lista, t) == \E k \in 1..Len(lista) : In(lista[k], t)

\* [p for p in lista if p in t]
Found(lista, t) == SelectSeq(lista, LAMBDA p : In(p, t))

\* t.endswith(p)
EndsWith(t, p) == Len(p) <= Len(t) /\ SubSeq(t, Len(t) - Len(p) + 1, Len(t)) = p

\* characters str.strip() and str.split() treat as white space
IsSpace(c) == c \in {" ", "\t", "\n", "\r"}

\* s.strip()
Strip(s) ==
  LET visiveis == {i \in 1..Len(s) : ~IsSpace(CharAt(s, i))}
  IN IF visiveis = {} THEN ""
     ELSE SubSeq(s, CHOOSE i \in visiveis : \A j \in visiveis : i <= j,
                    CHOOSE i \in visiveis : \A j \in visiveis : j <= i)

\* s.split(): the maximal runs of non-space characters, in order
Split(s) ==
  LET inicios == {i \in 1..Len(s) :
                    ~IsSpace(CharAt(s, i)) /\ (i = 1 \/ IsSpace(CharAt(s, i - 1)))}
      Fim(i) == CHOOSE j \in i..Len(s) :
                  /\ \A k \in i..j : ~IsSpace(CharAt(s, k))
                  /\ (j = Len(s) \/ IsSpace(CharAt(s, j + 1)))
      Inicio(n) == CHOOSE i \in inicios : Cardinality({j \in inicios : j < i}) = n - 1
  IN [n \in 1..Cardinality(inicios) |-> SubSeq(s, Inicio(n), Fim(Inicio(n)))]

\* " ".join(palavras)
RECURSIVE Join(_)
Join(ws) == IF ws = <<>> THEN ""
            ELSE IF Len(ws) = 1 THEN ws[1]
            ELSE ws[1] \o " " \o Join(Tail(ws))

\* sep.join(palavras) for the ", " separator of the reason strings
RECURSIVE JoinComma(_)
JoinComma(ws) == IF ws = <<>> THEN ""
                 ELSE IF Len(ws) = 1 THEN ws[1]
                 ELSE ws[1] \o ", " \o JoinComma(Tail(ws))

\* lista[:n]
Take(lista, n) == SubSeq(lista, 1, IF Len(lista) < n THEN Len(lista) ELSE n)

\* number of characters of s that belong to the set cs
CountChars(s, cs) == Cardinality({i \in 1..Len(s) : CharAt(s, i) \in cs})

\* len([x for x in s.split(sep) if x.strip()]) for a one-character sep:
\* the number of maximal sep-free segments holding a non-space character
NonBlankSegments(s, sep) ==
  LET Conteudo(i) == CharAt(s, i) # sep /\ ~IsSpace(CharAt(s, i))
      Primeiro_do_segmento(i) ==
        /\ Conteudo(i)
        /\ \A j \in 1..(i - 1) :
             Conteudo(j) => \E k \in (j + 1)..(i - 1) : CharAt(s, k) = sep
  IN Cardinality({i \in 1..Len(s) : Primeiro_do_segmento(i)})

(***************************************************************************)
(* Character classes: str.lower(), unidecode() and the regex class \w.     *)
(***************************************************************************)
UpperChars == "ABCDEFGHIJKLMNOPQRSTUVWXYZÁÀÂÃÉÊÍÓÔÕÚÇ"
LowerChars == "abcdefghijklmnopqrstuvwxyzáàâãéêíóôõúç"

IndexOf(c, s) == CHOOSE i \in 1..Len(s) : CharAt(s, i) = c


\* unidecode(c) for a lower-case character: the accent is dropped, a sharp s
\* becomes two letters, an inverted question mark becomes the ASCII one
UnidecodeChar(c) ==
  LET PlainChars ==
         "aaaaeeiooouc"
      AccentChars ==
         "áàâãéêíóôõúç"
  IN
  IF In(c, AccentChars) THEN CharAt(PlainChars, IndexOf(c, AccentChars))
  ELSE IF c = "ß" THEN "ss"
  ELSE IF c = "¿" THEN "?"
  ELSE c

\* the characters lo..hi of s, each replaced by F of it
RECURSIVE MapChars(_, _, _, _)
MapChars(F(_), s, lo, hi) ==
  IF lo > hi THEN ""
  ELSE IF lo = hi THEN F(CharAt(s, lo))
  ELSE MapChars(F, s, lo, (lo + hi) \div 2) \o MapChars(F, s, (lo + hi) \div 2 + 1, hi)

\* s.lower()
MapLower(s) ==
  MapChars(LAMBDA c : IF In(c, UpperChars)
                      THEN CharAt(LowerChars, IndexOf(c, UpperChars)) ELSE c,
           s, 1, Len(s))

\* regex \w (Unicode): letters, digits and underscore
IsWordChar(c) ==
  LET Digits ==
         "0123456789"
  IN
  In(c, LowerChars) \/ In(c, UpperChars) \/ In(c, Digits) \/ c = "_" \/ c = "ß"

\* re.search(r"\b(p1|p2|...)\b", t, re.IGNORECASE) for patterns that start
\* and end with a word character
AnyWordMatch(lista, t) ==
  LET lt == MapLower(t)
  IN \E k \in 1..Len(lista) :
     \E i \in 1..(Len(lt) - Len(lista[k]) + 1) :
       /\ SubSeq(lt, i, i + Len(lista[k]) - 1) = lista[k]
       /\ (i = 1 \/ ~IsWordChar(CharAt(lt, i - 1)))
       /\ (i + Len(lista[k]) - 1 = Len(lt) \/ ~IsWordChar(CharAt(lt, i + Len(lista[k]))))

(***************************************************************************)
(* Normalizer.                                                             *)
(***************************************************************************)
normalizar_texto(texto) ==
  MapChars(UnidecodeChar, MapLower(texto), 1, Len(MapLower(texto)))

(***************************************************************************)
(* Lemmatizer: static map, learned dictionary, model fallback, memo.       *)
(***************************************************************************)
\* The static map conjugated form -> infinitive, written as pairs
\* <<infinitive, forms mapped to it>>.
MAPEAMENTO_VERBOS ==
  {
    <<"enviar", {"enviar", "envie", "envia", "enviando", "enviado", "enviada", "enviei", "enviou", "enviaram"}>>,
    <<"criar", {"criar", "crie", "cria", "criando", "criado", "criada", "criei", "criou", "criaram"}>>,
    <<"agendar", {"agendar", "agende", "agenda", "agendando", "agendado", "agendada", "agendei", "agendou", "agendaram"}>>,
    <<"marcar", {"marcar", "marque", "marca", "marcando", "marcado", "marcada", "marquei", "marcou", "marcaram"}>>,
    <<"excluir", {"excluir", "exclua", "exclui", "excluindo", "excluido", "excluida", "excluiu", "excluiram"}>>,
    <<"deletar", {"deletar", "delete", "deleta", "deletando", "deletado", "deletada", "deletei", "deletou", "deletaram"}>>,
    <<"remover", {"remover", "remova", "remove", "removendo", "removido", "removida", "removi", "removeu", "removeram"}>>,
    <<"compartilhar", {"compartilhar", "compartilhe", "compartilha", "compartilhando", "compartilhado", "compartilhada", "compartilhei", "compartilhou", "compartilharam"}>>,
    <<"editar", {"editar", "edite", "edita", "editando", "editado", "editada", "editei", "editou", "editaram"}>>,
    <<"atualizar", {"atualizar", "atualize", "atualiza", "atualizando", "atualizado", "atualizada", "atualizei", "atualizou", "atualizaram"}>>,
    <<"modificar", {"modificar", "modifique", "modifica", "modificando", "modificado", "modificada", "modifiquei", "modificou", "modificaram"}>>,
    <<"responder", {"responder", "responda", "responde", "respondendo", "respondido", "respondida", "respondi", "respondeu", "responderam"}>>,
    <<"encaminhar", {"encaminhar", "encaminhe", "encaminha", "encaminhando", "encaminhado", "encaminhada", "encaminhei", "encaminhou", "encaminharam"}>>,
    <<"arquivar", {"arquivar", "arquive", "arquiva", "arquivando", "arquivado", "arquivada", "arquivei", "arquivou", "arquivaram"}>>,
    <<"baixar", {"baixar", "baixe", "baixa", "baixando", "baixado", "baixada", "baixei", "baixou", "baixaram", "download", "fazer download"}>>,
    <<"fazer upload", {"upload", "fazer upload", "subir", "suba", "sobe", "subindo", "subido", "subida", "subi", "subiu", "subiram"}>>,
    <<"buscar", {"buscar", "busque", "busca", "buscando", "buscado", "buscada", "busquei", "buscou", "buscaram", "procurar", "procure", "procura", "procurando", "pesquisar", "pesquise", "pesquisa", "pesquisando"}>>,
    <<"listar", {"listar", "liste", "lista", "listando", "listado", "listada", "listei", "listou", "listaram"}>>,
    <<"consultar", {"consultar", "consulte", "consulta", "consultando", "consultado", "consultada", "consultei", "consultou", "consultaram"}>>,
    <<"ver", {"ver", "veja", "ve", "vendo", "visto", "vista", "vi", "viu", "viram", "visualizar", "visualize", "visualiza", "visualizando"}>>,
    <<"abrir", {"abrir", "abra", "abre", "abrindo", "aberto", "aberta", "abri", "abriu", "abriram"}>>,
    <<"fechar", {"fechar", "feche", "fecha", "fechando", "fechado", "fechada", "fechei", "fechou", "fecharam"}>>,
    <<"cancelar", {"cancelar", "cancele", "cancela", "cancelando", "cancelado", "cancelada", "cancelei", "cancelou", "cancelaram"}>>,
    <<"reagendar", {"reagendar", "reagende", "reagenda", "reagendando", "reagendado", "reagendada", "reagendei", "reagendou", "reagendaram"}>>,
    <<"gerar", {"gerar", "gere", "gera", "gerando", "gerado", "gerada", "gerei", "gerou", "geraram"}>>,
    <<"emitir", {"emitir", "emita", "emite", "emitindo", "emitido", "emitida", "emiti", "emitiu", "emitiram"}>>,
    <<"pagar", {"pagar", "pague", "paga", "pagando", "pago", "paguei", "pagou", "pagaram"}>>,
    <<"transferir", {"transferir", "transfira", "transfere", "transferindo", "transferido", "transferida", "transferi", "transferiu", "transferiram"}>>,
    <<"organizar", {"organizar", "organize", "organiza", "organizando", "organizado", "organizada", "organizei", "organizou", "organizaram"}>>,
    <<"adicionar", {"adicionar", "adicione", "adiciona", "adicionando", "adicionado", "adicionada", "adicionei", "adicionou", "adicionaram"}>>,
    <<"inserir", {"inserir", "insira", "insere", "inserindo", "inserido", "inserida", "inseri", "inseriu", "inseriram"}>>,
    <<"anexar", {"anexar", "anexe", "anexa", "anexando", "anexado", "anexada", "anexei", "anexou", "anexaram"}>>,
    <<"copiar", {"copiar", "copie", "copia", "copiando", "copiado", "copiada", "copiei", "copiou", "copiaram"}>>,
    <<"mover", {"mover", "mova", "move", "movendo", "movido", "movida", "movi", "moveu", "moveram"}>>,
    <<"salvar", {"salvar", "salve", "salva", "salvando", "salvo", "salvei", "salvou", "salvaram"}>>,
    <<"imprimir", {"imprimir", "imprima", "imprime", "imprimindo", "impresso", "impressa", "imprimi", "imprimiu", "imprimiram"}>>,
    <<"exportar", {"exportar", "exporte", "exporta", "exportando", "exportado", "exportada", "exportei", "exportou", "exportaram"}>>,
    <<"importar", {"importar", "importe", "importa", "importando", "importado", "importada", "importei", "importou", "importaram"}>>
  }

VERBOS_INFINITIVOS == {e[1] : e \in MAPEAMENTO_VERBOS}

NoEstatico(palavra) == \E e \in MAPEAMENTO_VERBOS : palavra \in e[2]
LemaEstatico(palavra) == (CHOOSE e \in MAPEAMENTO_VERBOS : palavra \in e[2])[1]

\* number of new learned entries that triggers a write of the learned file
BATCH_SAVE_SIZE == 10

\* What the language model answers for a single word: its lemma and its
\* part of speech.  The model is an external collaborator; these are the
\* answers assumed for the words of the message corpus and of the
\* lemmatizer's word lists, any other word is returned unchanged as a
\* non-verb.
SpacyDoc(palavra) ==
  CASE palavra = "correndo" -> [lemma |-> "correr", pos |-> "VERB"]
    [] palavra = "sincronize" -> [lemma |-> "sincronizar", pos |-> "VERB"]
    [] palavra = "reunioes" -> [lemma |-> "reuniao", pos |-> "NOUN"]
    [] palavra = "conecte" -> [lemma |-> "conectar", pos |-> "VERB"]
    [] palavra = "nadando" -> [lemma |-> "nadar", pos |-> "VERB"]
    [] palavra = "pulando" -> [lemma |-> "pular", pos |-> "VERB"]
    [] palavra = "cantando" -> [lemma |-> "cantar", pos |-> "VERB"]
    [] palavra = "dormindo" -> [lemma |-> "dormir", pos |-> "VERB"]
    [] palavra = "pintando" -> [lemma |-> "pintar", pos |-> "VERB"]
    [] palavra = "lavando" -> [lemma |-> "lavar", pos |-> "VERB"]
    [] palavra = "andando" -> [lemma |-> "andar", pos |-> "VERB"]
    [] palavra = "jogando" -> [lemma |-> "jogar", pos |-> "VERB"]
    [] palavra = "comendo" -> [lemma |-> "comer", pos |-> "VERB"]
    [] OTHER -> [lemma |-> palavra, pos |-> "X"]

\* The lemmatizer's module state as one value:
\*   estatico   the entries adicionar_verbo has put into MAPEAMENTO_VERBOS
\*              since the module was loaded, a function word -> infinitive
\*   aprendido  DICIONARIO_APRENDIDO, a function word -> lemma
\*   forma      the Python type of DICIONARIO_APRENDIDO: "dict", or "list"
\*              when the learned file held a JSON array (aprendido then
\*              has the array's elements as its domain)
\*   pendentes  _palavras_desde_ultimo_save
\*   disponivel _spacy_disponivel: "None" before the first probe, then
\*              "True" or "False"
\*   memo       the lru_cache of lematizar_palavra, a function word -> lemma
\*   arquivo    the persisted learned file: forma is "ausente", "invalido"
\*              (unreadable or not JSON), "escalar" (a JSON number, boolean
\*              or null), "dict" or "list", dados the mapping or the
\*              array's elements
\* instalado says whether the model can be loaded in this process and io_ok
\* whether a write of the learned file succeeds.
EstadoInicialDoLematizador ==
  [estatico |-> <<>>, aprendido |-> <<>>, forma |-> "dict", pendentes |-> 0,
   disponivel |-> "None", memo |-> <<>>,
   arquivo |-> [forma |-> "ausente", dados |-> <<>>]]

\* carregar_dicionario_aprendido(): an absent file leaves the dictionary
\* alone; json.load decides the type of what is loaded, and the len() of
\* the log line raises for a scalar, which the handler turns into {}.
carregar_dicionario_aprendido(L) ==
  CASE L.arquivo.forma = "ausente" -> L
    [] L.arquivo.forma \in {"dict", "list"} ->
         [L EXCEPT !.aprendido = L.arquivo.dados, !.forma = L.arquivo.forma]
    [] OTHER -> [L EXCEPT !.aprendido = <<>>, !.forma = "dict"]

\* salvar_dicionario_aprendido without the batch test: every call writes.
\* C15 tells it from salvar_dicionario_aprendido.
salvar_dicionario_aprendido_sem_lote(L, force, io_ok) ==
  IF io_ok
    THEN [L EXCEPT !.arquivo = [forma |-> L.forma, dados |-> L.aprendido],
                   !.pendentes = 0]
  ELSE L

\* salvar_dicionario_aprendido zeroing the counter although the write
\* failed.  C17 tells it from salvar_dicionario_aprendido.
salvar_dicionario_aprendido_zera_na_falha(L, force, io_ok) ==
  IF ~force /\ L.pendentes < BATCH_SAVE_SIZE THEN L
  ELSE IF io_ok
    THEN [L EXCEPT !.arquivo = [forma |-> L.forma, dados |-> L.aprendido],
                   !.pendentes = 0]
  ELSE [L EXCEPT !.pendentes = 0]

\* salvar_dicionario_aprendido(force): a failing write is logged and leaves
\* the counter as it was
salvar_dicionario_aprendido(L, force, io_ok) ==
  IF ~force /\ L.pendentes < BATCH_SAVE_SIZE THEN L
  ELSE IF io_ok
    THEN [L EXCEPT !.arquivo = [forma |-> L.forma, dados |-> L.aprendido],
                   !.pendentes = 0]
  ELSE L

\* adicionar_ao_dicionario_aprendido(palavra, lemma), for a dictionary
\* (forma "dict"; the item assignment raises TypeError on a list)
adicionar_ao_dicionario_aprendido(L, palavra, lemma, io_ok) ==
  IF palavra \in DOMAIN L.aprendido THEN L
  ELSE salvar_dicionario_aprendido(
         [L EXCEPT !.aprendido = (palavra :> lemma) @@ L.aprendido,
                   !.pendentes = L.pendentes + 1], FALSE, io_ok)

\* adicionar_verbo without the cache_clear() at its end.  C12 tells it from
\* adicionar_verbo.
adicionar_verbo_sem_cache_clear(L, infinitivo, conjugacoes) ==
  [L EXCEPT !.estatico = [w \in conjugacoes \cup {infinitivo} |-> infinitivo] @@ L.estatico]

\* adicionar_verbo(infinitivo, conjugacoes): the infinitive first, then the
\* conjugations (a conjugation equal to the infinitive maps to it as well),
\* then lematizar_palavra.cache_clear()
adicionar_verbo(L, infinitivo, conjugacoes) ==
  [L EXCEPT !.estatico = [w \in conjugacoes \cup {infinitivo} |-> infinitivo] @@ L.estatico,
            !.memo = <<>>]

\* resetar_dicionario_aprendido(): clears the dictionary in place (a list
\* stays a list), zeroes the counter and unlinks the file; the lru_cache of
\* lematizar_palavra is left as it is
resetar_dicionario_aprendido(L) ==
  [L EXCEPT !.aprendido = <<>>, !.pendentes = 0,
            !.arquivo = [forma |-> "ausente", dados |-> <<>>]]

\* _verificar_spacy_disponivel(): the probe runs once and is remembered
verificar_spacy_disponivel(L, instalado) ==
  IF L.disponivel # "None" THEN L
  ELSE [L EXCEPT !.disponivel = IF instalado THEN "True" ELSE "False"]

\* _lematizar_com_spacy(palavra) in state P, doc being what nlp(palavra)
\* gives: pos "ERRO" when _get_nlp or nlp raises, "VAZIO" for an empty doc.
\* Any exception, the TypeError of learning into a list included, is caught
\* and the word is returned.  The new state and the lemma.
lematizar_com_spacy(P, palavra, doc, io_ok) ==
  IF doc.pos \in {"ERRO", "VAZIO"} THEN [L |-> P, lemma |-> palavra]
  ELSE IF doc.pos # "VERB" THEN [L |-> P, lemma |-> doc.lemma]
  ELSE IF P.forma = "list" /\ palavra \notin DOMAIN P.aprendido
    THEN [L |-> P, lemma |-> palavra]
  ELSE [L |-> adicionar_ao_dicionario_aprendido(P, palavra, doc.lemma, io_ok),
        lemma |-> doc.lemma]

\* lematizar_palavra memoizing the word instead of the lemma it returns.
\* C20 tells it from lematizar_palavra_com.
lematizar_palavra_memoriza_a_palavra(L, palavra, instalado, io_ok, doc) ==
  IF palavra \in DOMAIN L.memo
    THEN [L |-> L, lemma |-> L.memo[palavra], erro |-> ""]
  ELSE IF NoEstatico(palavra)
    THEN [L |-> [L EXCEPT !.memo = (palavra :> palavra) @@ L.memo],
          lemma |-> LemaEstatico(palavra), erro |-> ""]
  ELSE IF verificar_spacy_disponivel(L, instalado).disponivel = "True"
    THEN [L |-> [verificar_spacy_disponivel(L, instalado)
                   EXCEPT !.memo = (palavra :> palavra) @@ L.memo],
          lemma |-> doc.lemma, erro |-> ""]
  ELSE [L |-> [verificar_spacy_disponivel(L, instalado)
                 EXCEPT !.memo = (palavra :> palavra) @@ L.memo],
        lemma |-> palavra, erro |-> ""]

\* lematizar_palavra(palavra) when nlp(palavra) gives doc: the new state,
\* the lemma returned and the exception raised ("" when none).  A raised
\* exception is not memoized.
lematizar_palavra_com(L, palavra, instalado, io_ok, doc) ==
  LET Devolve(r) ==
        [L |-> [r.L EXCEPT !.memo = (palavra :> r.lemma) @@ r.L.memo],
         lemma |-> r.lemma, erro |-> ""]
  IN
  IF palavra \in DOMAIN L.memo
    THEN [L |-> L, lemma |-> L.memo[palavra], erro |-> ""]
  ELSE IF palavra \in DOMAIN L.estatico
    THEN Devolve([L |-> L, lemma |-> L.estatico[palavra]])
  ELSE IF NoEstatico(palavra)
    THEN Devolve([L |-> L, lemma |-> LemaEstatico(palavra)])
  ELSE IF palavra \in DOMAIN L.aprendido
    THEN IF L.forma = "list"
           THEN [L |-> L, lemma |-> "", erro |-> "TypeError"]
         ELSE Devolve([L |-> L, lemma |-> L.aprendido[palavra]])
  ELSE IF verificar_spacy_disponivel(L, instalado).disponivel = "True"
    THEN Devolve(lematizar_com_spacy(verificar_spacy_disponivel(L, instalado),
                                     palavra, doc, io_ok))
  ELSE Devolve([L |-> verificar_spacy_disponivel(L, instalado), lemma |-> palavra])

\* lematizar_palavra(palavra) with the model's answer for the word
lematizar_palavra(L, palavra, instalado, io_ok) ==
  lematizar_palavra_com(L, palavra, instalado, io_ok, SpacyDoc(palavra))

\* [lematizar_palavra(p) for p in palavras], threading the state
RECURSIVE LematizarPalavras(_, _, _, _)
LematizarPalavras(L, palavras, instalado, io_ok) ==
  IF palavras = <<>> THEN [L |-> L, lemas |-> <<>>]
  ELSE LET r == lematizar_palavra(L, Head(palavras), instalado, io_ok)
           s == LematizarPalavras(r.L, Tail(palavras), instalado, io_ok)
       IN [L |-> s.L, lemas |-> <<r.lemma>> \o s.lemas]

(***************************************************************************)
(* Classifier.  A rule group yields a result [categoria, motivos] or       *)
(* Nenhum when it does not decide; determinar_categoria takes the first    *)
(* group that decides, in the order of the code.                           *)
(***************************************************************************)
Nenhum == [categoria |-> "nenhum", motivos |-> <<>>]
Resultado(categoria, motivo) == [categoria |-> categoria, motivos |-> <<motivo>>]

\* the first result of a sequence of results that is not Nenhum
RECURSIVE Primeiro(_)
Primeiro(rs) == IF rs = <<>> THEN Nenhum
                ELSE IF Head(rs) # Nenhum THEN Head(rs)
                ELSE Primeiro(Tail(rs))

\* the first entry <<padrao, motivo>> of a table whose padrao is in the text
TemPadrao(tabela, t) == \E k \in 1..Len(tabela) : In(tabela[k][1], t)
PrimeiroPadrao(tabela, t) ==
  tabela[CHOOSE k \in 1..Len(tabela) :
           /\ In(tabela[k][1], t)
           /\ \A j \in 1..(k - 1) : ~In(tabela[j][1], t)]

\* ---- PRIORIDADE 0: very short messages --------------------------------
num_palavras(texto_normalizado) == Len(Split(texto_normalizado))

\* The pre-filter applied below 15 characters only.  C25 tells it from
\* PreFiltroCurto.
PreFiltroCurtoAbaixoDeQuinze(mensagem_original, t) ==
  LET saudacoes_comuns ==
        <<"oi", "ola", "oie", "opa", "e ai", "eai", "bom dia", "boa tarde", "boa noite",
          "como vai", "tudo bem", "blz", "beleza">>
      confirmacoes ==
        {"ok", "sim", "nao", "entendi", "certo", "beleza", "hmm", "talvez"}
      eh_ultra_curta == Len(Strip(mensagem_original)) < 15
      interrogativas_sozinhas ==
        {"como", "quando", "onde", "que", "qual", "quem", "quanto"}
      pronomes_demonstrativos ==
        {"isso", "aquilo", "este", "esse", "aquele", "la", "ca"}
      palavras_genericas ==
        {"documento", "email", "arquivo", "planilha", "fazer", "criar", "enviar"}
      incertezas ==
        <<"nao sei", "sei la", "talvez", "acho que">>
  IN
  IF eh_ultra_curta /\ num_palavras(t) <= 2
  THEN IF AnyIn(saudacoes_comuns, t)
         THEN Resultado("user", "Saudação conversacional")
       ELSE IF Strip(t) \in confirmacoes
         THEN Resultado("user", "Resposta/feedback conversacional")
       ELSE IF AnyIn(incertezas, t)
         THEN Resultado("unclear", "Expressão de incerteza - precisa de esclarecimento")
       ELSE IF Strip(t) \in palavras_genericas
         THEN Resultado("unclear", "Palavra solta sem contexto - precisa de esclarecimento")
       ELSE IF Strip(t) \in pronomes_demonstrativos
         THEN Resultado("unclear", "Referência ambígua - precisa de contexto")
       ELSE IF Strip(t) \in interrogativas_sozinhas
         THEN Resultado("unclear", "Pergunta incompleta - precisa de mais informação")
       ELSE IF num_palavras(t) = 1 /\ Len(Strip(t)) < 6
         THEN Resultado("unclear", "Mensagem muito curta sem contexto claro")
       ELSE Nenhum
  ELSE Nenhum

\* the greeting/confirmation lexicon of the pre-filter
PreFiltroCurto(mensagem_original, t) ==
  LET saudacoes_comuns ==
        <<"oi", "ola", "oie", "opa", "e ai", "eai", "bom dia", "boa tarde", "boa noite",
          "como vai", "tudo bem", "blz", "beleza">>
      confirmacoes ==
        {"ok", "sim", "nao", "entendi", "certo", "beleza", "hmm", "talvez"}
      eh_ultra_curta == Len(Strip(mensagem_original)) <= 15
      interrogativas_sozinhas ==
        {"como", "quando", "onde", "que", "qual", "quem", "quanto"}
      pronomes_demonstrativos ==
        {"isso", "aquilo", "este", "esse", "aquele", "la", "ca"}
      palavras_genericas ==
        {"documento", "email", "arquivo", "planilha", "fazer", "criar", "enviar"}
      incertezas ==
        <<"nao sei", "sei la", "talvez", "acho que">>
  IN
  IF eh_ultra_curta /\ num_palavras(t) <= 2
  THEN IF AnyIn(saudacoes_comuns, t)
         THEN Resultado("user", "Saudação conversacional")
       ELSE IF Strip(t) \in confirmacoes
         THEN Resultado("user", "Resposta/feedback conversacional")
       ELSE IF AnyIn(incertezas, t)
         THEN Resultado("unclear", "Expressão de incerteza - precisa de esclarecimento")
       ELSE IF Strip(t) \in palavras_genericas
         THEN Resultado("unclear", "Palavra solta sem contexto - precisa de esclarecimento")
       ELSE IF Strip(t) \in pronomes_demonstrativos
         THEN Resultado("unclear", "Referência ambígua - precisa de contexto")
       ELSE IF Strip(t) \in interrogativas_sozinhas
         THEN Resultado("unclear", "Pergunta incompleta - precisa de mais informação")
       ELSE IF num_palavras(t) = 1 /\ Len(Strip(t)) < 6
         THEN Resultado("unclear", "Mensagem muito curta sem contexto claro")
       ELSE Nenhum
  ELSE Nenhum

MensagemDeTeste(mensagem_original, t) ==
  LET palavras_teste ==
        <<"teste", "abc", "xyz", "123", "aaa", "bbb">>
  IN
  IF num_palavras(t) <= 3 /\ Len(Strip(mensagem_original)) < 20 /\ AnyIn(palavras_teste, t)
  THEN Resultado("unclear", "Parece mensagem de teste - sem intenção clara")
  ELSE Nenhum

\* ---- PRIORIDADE 0.2: contextual / semantic ambiguity ------------------


MensagemConversacional(t) ==
  LET mensagens_conversacionais_claras ==
        <<"beleza", "ok", "certo", "entendi", "obrigado", "obrigada",
         "valeu", "legal", "otimo", "perfeito", "maravilha",
         "pode continuar", "pode seguir", "tudo certo", "esta certo",
         "deu certo", "ficou otimo", "ficou bom", "ta bom",
         "entao ta", "deixa como esta", "nao precisa",
         "me lembra", "era isso", "e isso mesmo", "me atualiza">>
  IN
  IF AnyIn(mensagens_conversacionais_claras, t)
  THEN Resultado("message", "Mensagem conversacional (confirmação/feedback)")
  ELSE Nenhum


FraseRestoAmbigua(t) ==
  LET frases_resto_ambiguas ==
        <<"faz o resto", "faz o restante", "depois que terminar", "quando acabar", "quando finalizar">>
  IN
  IF AnyIn(frases_resto_ambiguas, t)
  THEN Resultado("unclear", "Referência vaga - 'o resto' ou condição temporal indefinida")
  ELSE Nenhum


eh_mensagem_longa_conversacional(mensagem_original, t) ==
  LET termos_conversacionais ==
        <<"gostaria", "poderia", "agradecer", "obrigado", "poderia me ajudar", "me ajudar">>
  IN
  /\ Len(mensagem_original) > 100
  /\ num_palavras(t) > 15
  /\ AnyIn(termos_conversacionais, t)

\* pronome_encontrado after the three pronoun checks, "" when none is ambiguous
pronome_encontrado(t) ==
  LET nomes_proprios ==
        <<"maria", "joao", "ana", "pedro", "carlos", "jose", "paulo">>
      substantivos_claros ==
        <<"maria", "joao", "pedro", "ana", "carlos", "jose",
         "arquivo", "documento", "planilha", "email", "relatorio">>
      pronomes_sem_contexto ==
        << <<" ela ", "ela">>, <<" ele ", "ele">>, <<" eles ", "eles">>, <<" elas ", "elas">>,
        <<" isso ", "isso">>, <<" aquilo ", "aquilo">>, <<" disso ", "disso">>,
        <<" daquilo ", "daquilo">>, <<" esse ", "esse">>, <<" esta ", "esta">> >>
      p1 == IF TemPadrao(pronomes_sem_contexto, t) /\ ~AnyIn(substantivos_claros, t)
            THEN PrimeiroPadrao(pronomes_sem_contexto, t)[2] ELSE ""
      p2 == IF In(" e pra ela", t) THEN "ela/ele"
            ELSE IF In(" e pra ele", t) THEN "ele"
            ELSE p1
      p3 == IF (In(" pra ela", t) \/ In(" pra ele", t)) /\ ~AnyIn(nomes_proprios, t)
            THEN (IF In(" pra ela", t) THEN "ela" ELSE "ele")
            ELSE p2
  IN p3

tem_pronome_ambiguo(t) == pronome_encontrado(t) # ""

PronomeAmbiguo(mensagem_original, t) ==
  IF ~eh_mensagem_longa_conversacional(mensagem_original, t) /\ tem_pronome_ambiguo(t)
  THEN Resultado("unclear",
         "Referência ambígua ('" \o pronome_encontrado(t) \o "') sem antecedente claro")
  ELSE Nenhum


ReferenciaTemporalAmbigua(t) ==
  LET referencias_temporais_ambiguas ==
        <<"de antes", "da outra vez", "do outro dia", "de ontem",
         "mesmo lugar", "mesmo jeito", "o mesmo que", "igual ao",
         "o que a gente", "o que voce", "o que eu",
         "aquele problema", "aquele erro", "aquele arquivo", "aquele documento">>
  IN
  IF AnyIn(referencias_temporais_ambiguas, t)
  THEN Resultado("unclear",
         "Referência temporal/comparativa ambígua - depende de contexto anterior")
  ELSE Nenhum


TermoVago(t) ==
  LET termos_vagos ==
        <<"o necessario", "o que precisar", "o que for melhor",
         "tudo certo", "deixa certo", "ajeita", "resolve",
         "cuida disso", "da um jeito", "faz funcionar">>
  IN
  IF AnyIn(termos_vagos, t)
  THEN Resultado("unclear", "Termo vago/subjetivo sem definição clara da ação")
  ELSE Nenhum


CondicaoIndefinida(t) ==
  LET condicoes_indefinidas ==
        <<"se for o caso", "se precisar", "se der",
         "quando der", "quando puder", "quando for possivel",
         "talvez precise", "pode ser que", "acho que talvez">>
  IN
  IF AnyIn(condicoes_indefinidas, t)
  THEN Resultado("unclear",
         "Condição temporal/condicional indefinida - falta clareza sobre quando/se executar")
  ELSE Nenhum


AcaoComObjetoGenerico(t) ==
  LET especificacoes_de_objeto ==
        <<"chamado", "chamada", " reuniao ", " da reuniao ", "@", ".com", ".pdf", ".docx", ".xlsx">>
      palavras_genericas_objeto ==
        <<"documento", "arquivo", "email", "planilha", "relatorio", "cadastro">>
      acoes_com_objeto_generico ==
        << <<"gera o", "objeto a gerar não especificado">>,
        <<"cria o", "objeto a criar não especificado">>,
        <<"envia o", "objeto a enviar não especificado">>,
        <<"manda o", "objeto a enviar não especificado">>,
        <<"salva o", "objeto a salvar não especificado">>,
        <<"abre o", "objeto a abrir não especificado">>,
        <<"deleta o", "objeto a deletar não especificado">>,
        <<"exclui o", "objeto a excluir não especificado">>,
        <<"edita o", "objeto a editar não especificado">>,
        <<"verifica o", "objeto a verificar não especificado">>,
        <<"revisa o", "objeto a revisar não especificado">> >>
  IN
  IF /\ TemPadrao(acoes_com_objeto_generico, t)
     /\ AnyIn(palavras_genericas_objeto, t)
     /\ ~AnyIn(especificacoes_de_objeto, t)
  THEN Resultado("unclear",
         "Ação incompleta: " \o PrimeiroPadrao(acoes_com_objeto_generico, t)[2])
  ELSE Nenhum

ModificadorDeNovo(t) ==
  IF /\ In("de novo", t)
     /\ AnyIn(<<"cria", "gera", "faz", "envia">>, t)
     /\ ~AnyIn(<<" cliente ", " projeto ", " reuniao ", "chamado">>, t)
  THEN Resultado("unclear",
         "Modificador 'de novo' sem especificação - refazer qual ação/objeto?")
  ELSE Nenhum


DestinoGenericoAmbiguo(t) ==
  LET especificacoes_de_arquivo ==
        <<".pdf", ".docx", ".xlsx", "chamado", "contrato", "relatorio de">>
      destinos_especificos ==
        <<"drive", "gmail", "sheets", "docs", "calendar", "email", "slack">>
      destinos_genericos_ambiguos ==
        << <<"envia o documento", "documento genérico sem especificação">>,
        <<"envia o arquivo", "arquivo genérico sem especificação">>,
        <<"envia a planilha", "planilha genérica sem especificação">>,
        <<"manda o documento", "documento genérico sem especificação">>,
        <<"manda o arquivo", "arquivo genérico sem especificação">> >>
  IN
  IF /\ TemPadrao(destinos_genericos_ambiguos, t)
     /\ ~AnyIn(destinos_especificos, t)
     /\ ~AnyIn(especificacoes_de_arquivo, t)
  THEN Resultado("unclear",
         "Ação incompleta: " \o PrimeiroPadrao(destinos_genericos_ambiguos, t)[2])
  ELSE Nenhum


OutroDestinoGenerico(t) ==
  LET outros_destinos_genericos ==
        << <<"salva na planilha", "planilha não especificada">>,
        <<"salva na pasta", "pasta não especificada">>,
        <<"coloca na pasta", "pasta não especificada">>,
        <<"coloca no calendario", "evento não especificado">>,
        <<"envia pro email", "destinatário não especificado">> >>
  IN
  IF /\ TemPadrao(outros_destinos_genericos, t)
     /\ ~AnyIn(<<" cliente ", " projeto ", " chamado", " reuniao ">>, t)
  THEN Resultado("unclear",
         "Destino incompleto: " \o PrimeiroPadrao(outros_destinos_genericos, t)[2])
  ELSE Nenhum


verbos_encontrados_lista(t) ==
  LET verbos_acao_sistema ==
        <<"criar", "gerar", "enviar", "mandar", "deletar", "excluir",
         "editar", "modificar", "salvar", "abrir", "fechar", "arquivar",
         "fazer", "produzir", "compartilhar", "baixar", "fazer upload",
         "cria", "gera", "envia", "manda", "deleta", "exclui",
         "edita", "modifica", "salva", "abre", "fecha", "arquiva",
         "faz", "produz", "compartilha", "baixa",
         "crie", "gere", "envie", "mande", "delete", "exclua",
         "edite", "modifique", "salve", "abra", "feche", "archive">>
  IN
  Found(verbos_acao_sistema, t)

IntencaoDupla(t) ==
  LET conectores_dupla_intencao ==
        <<" ou ", " e ", " / ", " e/ou ">>
  IN
  IF /\ AnyIn(conectores_dupla_intencao, t)
     /\ Len(verbos_encontrados_lista(t)) >= 2
     /\ ~AnyIn(<<"voce pode", "voce consegue", "e possivel">>, t)
  THEN Resultado("unclear",
         "Múltiplas ações (" \o JoinComma(Take(verbos_encontrados_lista(t), 2))
           \o ") - qual executar?")
  ELSE Nenhum


TermoPolissemico(t) ==
  LET termos_polissemicos ==
        << <<"sobe o", "termo 'sobe' ambíguo - upload, move para pasta superior?">>,
        <<"sobe ", "termo 'sobe' ambíguo - upload, move para pasta superior?">>,
        <<"corrige a conta", "termo 'conta' ambíguo - valor financeiro ou perfil de usuário?">>,
        <<"corrige o", "termo 'corrige' ambíguo - qual tipo de correção?">>,
        <<"cria um registro", "termo 'registro' ambíguo - onde? em qual sistema/planilha?">> >>
  IN
  IF TemPadrao(termos_polissemicos, t)
  THEN Resultado("unclear",
         "Ambiguidade de domínio: " \o PrimeiroPadrao(termos_polissemicos, t)[2])
  ELSE Nenhum

\* the ambiguity detectors in the order of the code (after the
\* acknowledgement rule)
DetectoresDeAmbiguidade(mensagem_original, t) ==
  Primeiro(<<FraseRestoAmbigua(t),
             PronomeAmbiguo(mensagem_original, t),
             ReferenciaTemporalAmbigua(t),
             TermoVago(t),
             CondicaoIndefinida(t),
             AcaoComObjetoGenerico(t),
             ModificadorDeNovo(t),
             DestinoGenericoAmbiguo(t),
             OutroDestinoGenerico(t),
             IntencaoDupla(t),
             TermoPolissemico(t)>>)

\* ---- PRIORIDADE 0.5: capability questions ----------------------------
perguntas_capacidade ==
  <<"voce pode", "voce consegue", "voce tem",
    "e possivel", "da pra", "tem como", "existe alguma forma",
    "como faco", "como fazer", "como funciona",
    "onde esta", "onde fica", "o que e", "qual e">>

MensagemLongaConversacional(mensagem_original, t) ==
  IF eh_mensagem_longa_conversacional(mensagem_original, t)
  THEN Resultado("user", "Mensagem conversacional longa - sem comando de integração")
  ELSE Nenhum

IncertezaSobreAcao(t) ==
  LET verbos_de_incerteza ==
        <<"criar", "gerar", "enviar", "deletar", "fazer", "cria", "gera", "faz">>
      expressoes_incerteza ==
        <<"nao tenho certeza", "nao sei se", "nao tenho", "nao sei",
         "acho que talvez", "talvez precise", "pode ser que",
         "nao estou certo", "nao estou seguro">>
  IN
  IF AnyIn(expressoes_incerteza, t) /\ AnyIn(verbos_de_incerteza, t)
  THEN Resultado("unclear", "Expressão de incerteza sobre ação - falta confirmação")
  ELSE Nenhum

PerguntaComOpcoes(mensagem_original, t) ==
  LET opcoes_ambiguas ==
        <<"antes", "depois", "manda", "envia", "deleta", "mantem", "cria", "edita">>
  IN
  IF In(" ou ", t) /\ EndsWith(mensagem_original, "?") /\ AnyIn(opcoes_ambiguas, t)
  THEN Resultado("unclear",
         "Pergunta com múltiplas opções sem contexto - não há resposta clara")
  ELSE Nenhum

\* The capability-question rule left out: the rule C8 is about.
SemPerguntaDeCapacidade(t) == Nenhum

PerguntaDeCapacidade(t) ==
  IF AnyIn(perguntas_capacidade, t)
  THEN Resultado("messages", "Pergunta sobre capacidade (não é comando)")
  ELSE Nenhum

\* ---- PRIORIDADE 1: internal commands vs external APIs -----------------

eh_comando_system(t) ==
  LET verbos_system ==
        <<"reinicia", "reiniciar", "limpa", "limpar", "atualiza",
         "verifica", "habilita", "habilitar", "ativa", "ativar",
         "desativa", "desativar", "desconecta", "desconectar", "refresh",
         "forca", "forcar", "mostra", "me mostra">>
      palavras_system_interno ==
        <<"sessao", "cache", "log", "logs", "webhook", "webhooks",
         "variaveis de ambiente", "variavel de ambiente", "depuracao", "debug",
         "modo teste", "modo de teste", "agente", "banco", "database",
         "microservico", "api interna", "infraestrutura", "backend",
         "monique", "historico de conversa", "historico">>
  IN
  /\ AnyIn(palavras_system_interno, t)
  /\ (AnyIn(verbos_system, t) \/ In("verifica se", t))

ComandoInterno(t) ==
  IF eh_comando_system(t)
  THEN Resultado("system", "Comando de controle interno do sistema")
  ELSE Nenhum

eh_comando_api_externa(t) ==
  LET palavras_apis_externas ==
        <<"google calendar", "calendar", "gmail", "google drive", "drive",
         "google sheets", "sheets", "google docs", "google meet", "meet",
         "google tasks", "tasks", "google photos", "photos",
         "oauth", "autenticacao google", "conta google", "api google">>
  IN
  AnyIn(palavras_apis_externas, t)

ComandoApiExterna(t) ==
  IF eh_comando_api_externa(t)
  THEN Resultado("user", "Comando que requer API externa (Google, OAuth)")
  ELSE Nenhum

\* ---- Prioridade 2: generic integration intent -------------------------
\* The system keywords (a set in the code; listed in the order written).
PALAVRAS_CHAVE_DE_SISTEMA ==
  <<"documento", "document", "doc", "planilha", "spreadsheet", "sheet", "tabela",
    "arquivo", "file", "pdf", "drive", "armazenamento", "storage",
    "calendario", "agenda", "evento", "compromisso", "contatos", "contacts",
    "nota", "notes",
    "reuniao", "meeting", "encontro",
    "compartilhar", "share", "sincronizar", "sync", "integracao", "api", "oauth",
    "google", "gmail", "email", "e-mail",
    "boleto", "fatura", "cobranca", "pagamento">>

\* Lexicons the classifier imports from the lemmatizer module.
OBJETOS_INTEGRACAO == <<"planilha", "spreadsheet", "boleto", "pix", "videochamada">>
CONTEXTOS_EMAIL == <<"para", "urgente", "assunto", "anexo">>
CONTEXTOS_COMPARTILHAR == <<"com ", "equipe", "link">>
CONTEXTOS_AGENDAMENTO == <<"reuniao", "amanha", "hoje", "horario", "as ">>
CONTEXTOS_CANCELAMENTO == <<"reuniao", "evento", "compromisso">>
EXCLUSOES_INTEGRACAO ==
  <<"o que voce sabe", "voce sabe", "bom dia", "boa tarde", "boa noite">>

eh_narrativa_terceira_pessoa(t) ==
  LET verbos_passado_narrativa ==
        <<" deletou ", " enviou ", " criou ", " compartilhou ",
         " agendou ", " cancelou ", " removeu ", " excluiu ",
         " baixou ", " baixaram ", " enviaram ", " criaram ",
         " compartilharam ", " agendaram ", " cancelaram ">>
      sujeitos_de_narrativa_exclusao ==
        <<"ele ", "ela ", "eles ", "elas ", "alguem ", "voce viu que ",
         "maria ", "joao ", "jose ", "ana ", "pedro ", "paulo ", "lucas ", "carlos ", "fernando ",
         "a equipe ", "o time ", "os hackers ", "a empresa ", "o grupo ", "eles ", "alguem ">>
  IN
  AnyIn(sujeitos_de_narrativa_exclusao, t) /\ AnyIn(verbos_passado_narrativa, t)

\* the three exclusion filters of _tem_intencao_clara_de_integracao
ExcluidoDeIntegracao(t) ==
  LET perguntas_capacidade_exclusao ==
        <<"voce pode", "voce consegue", "e possivel", "da pra", "tem como",
         "existe alguma forma", "como faco", "como fazer", "onde esta", "onde fica">>
  IN
  \/ AnyIn(perguntas_capacidade_exclusao, t)
  \/ eh_narrativa_terceira_pessoa(t)
  \/ AnyIn(EXCLUSOES_INTEGRACAO, t)


\* tem_integracao, given the lemmas of the words of the text
tem_integracao(t, lemas) ==
  LET objetos_genericos_com_verbo ==
        <<"relatorio", "arquivo", "documento", "dados", "backup",
         "nota", "texto", "mensagem", "foto", "imagem", "video">>
      texto_lematizado == Join(lemas)
      verbos_encontrados == {lemas[i] : i \in 1..Len(lemas)} \cap VERBOS_INFINITIVOS
      tem_verbo == (verbos_encontrados \cap VERBOS_INFINITIVOS) # {}
      tem_objeto_especifico == AnyIn(OBJETOS_INTEGRACAO, t)
      tem_objeto_generico == AnyIn(objetos_genericos_com_verbo, t)
      tem_email_com_destinatario == In("@", t) \/ In(".com", t)
      tem_email_com_contexto ==
        /\ (In("email", t) \/ In("e-mail", t))
        /\ (tem_verbo \/ In("para", t) \/ In("@", t))
        /\ AnyIn(CONTEXTOS_EMAIL, t)
      tem_documento_com_acao ==
        /\ \/ In("documento", t)
           \/ In("doc ", t)
           \/ In(" doc ", t)
           \/ EndsWith(t, "doc")
           \/ (Len(t) >= 4 /\ SubSeq(t, 1, 4) = "doc ")   \* t.startswith("doc ")
        /\ tem_verbo
      tem_arquivo_com_acao ==
        /\ In("arquivo", t)
        /\ (tem_verbo \/ In("baixar", texto_lematizado) \/ In("compartilhado", t))
      tem_calendario_com_contexto ==
        /\ (In("agenda", t) \/ In("calendar", t))
        /\ tem_verbo
        /\ ~In("tempo", t)
      tem_compartilhamento ==
        In("compartilhar", texto_lematizado) /\ AnyIn(CONTEXTOS_COMPARTILHAR, t)
      tem_agendamento_horario ==
        /\ \/ In("marcar", texto_lematizado)
           \/ In("agendar", texto_lematizado)
           \/ In("reservar", texto_lematizado)
        /\ AnyIn(CONTEXTOS_AGENDAMENTO, t)
      tem_cancelamento_ou_reagendamento ==
        /\ (In("cancelar", texto_lematizado) \/ In("reagendar", texto_lematizado))
        /\ AnyIn(CONTEXTOS_CANCELAMENTO, t)
      tem_verbo_com_objeto_generico == tem_verbo /\ tem_objeto_generico
  IN \/ tem_objeto_especifico
     \/ tem_email_com_contexto
     \/ tem_email_com_destinatario
     \/ tem_documento_com_acao
     \/ tem_arquivo_com_acao
     \/ tem_calendario_com_contexto
     \/ tem_compartilhamento
     \/ tem_agendamento_horario
     \/ tem_cancelamento_ou_reagendamento
     \/ tem_verbo_com_objeto_generico

palavras_encontradas(t) == Found(PALAVRAS_CHAVE_DE_SISTEMA, t)

IntegracaoGenerica(t, lemas) ==
  IF /\ palavras_encontradas(t) # <<>>
     \* _tem_intencao_clara_de_integracao(texto_normalizado)
     /\ ~ExcluidoDeIntegracao(t) /\ tem_integracao(t, lemas)
  THEN Resultado("system",
         "Palavras-chave de sistemas/APIs: " \o JoinComma(Take(palavras_encontradas(t), 6)))
  ELSE Nenhum

\* ---- Prioridade 1.5A .. 1.5G ------------------------------------------

NarrativaTerceiraPessoa(t) ==
  LET verbos_passado ==
        <<" deletou ", " enviou ", " criou ", " compartilhou ",
         " agendou ", " cancelou ", " removeu ", " excluiu ",
         " baixou ", " baixaram ", " enviaram ", " criaram ",
         " compartilharam ", " agendaram ">>
      sujeitos_terceira_pessoa ==
        <<"ele ", "ela ", "eles ", "elas ", "alguem ", "voce viu que ",
         "maria ", "joao ", "jose ", "ana ", "pedro ", "paulo ", "lucas ", "carlos ",
         "a equipe ", "o time ", "os hackers ", "a empresa ", "o grupo ">>
  IN
  IF AnyIn(sujeitos_terceira_pessoa, t) /\ AnyIn(verbos_passado, t)
  THEN Resultado("user", "Narrativa sobre terceira pessoa (não é comando)")
  ELSE Nenhum


TarefaPessoal(t) ==
  LET palavras_tarefas_pessoais ==
        <<"melhorar meu", "melhorar minha", "organizar meu", "organizar minha",
         "mentalmente", "estrategia", "plano de", "praticas para", "melhores praticas">>
  IN
  IF AnyIn(palavras_tarefas_pessoais, t)
  THEN Resultado("user", "Tarefa pessoal/abstrata (não comando de API)")
  ELSE Nenhum


PedidoDeAjuda(t) ==
  LET pedidos_ajuda_genericos ==
        <<"me ajude", "me ajuda", "preciso de ajuda",
         "tutorial de", "tutorial sobre", "como usar",
         "dicas de", "dicas sobre", "dica de">>
  IN
  IF AnyIn(pedidos_ajuda_genericos, t)
  THEN Resultado("messages", "Pedido de ajuda genérico (não comando específico)")
  ELSE Nenhum


SaudacaoInterrogativa(mensagem_original, t) ==
  LET saudacoes_interrogativas ==
        <<"tudo bem", "como vai", "como voce esta", "e ai", "beleza">>
  IN
  IF AnyIn(saudacoes_interrogativas, t) /\ In("?", mensagem_original)
  THEN Resultado("user", "Saudação conversacional")
  ELSE Nenhum


FraseCondicional(t) ==
  LET marcadores_condicionais ==
        <<"se pudesse", "se tivesse", "se fosse", "se conseguisse",
         "mas nao posso", "porem nao", "todavia nao">>
  IN
  IF AnyIn(marcadores_condicionais, t)
  THEN Resultado("messages", "Frase condicional/hipotética (não comando direto)")
  ELSE Nenhum


tem_verbo_integracao(lemas) == \E verbo \in VERBOS_INFINITIVOS : In(verbo, Join(lemas))

ComandoComObjetoGenerico(mensagem_original, t, lemas) ==
  LET palavras_abstratas ==
        <<"mentalmente", "estrategia", "plano de", "melhorar meu", "organizar meu">>
      objetos_genericos_comandos ==
        <<"relatorio", "arquivo", "documento", "dados", "backup",
         "nota", "texto", "mensagem", "foto", "imagem", "video", "email",
         "valor", "dinheiro", "pagamento", "boleto">>
  IN
  IF /\ AnyIn(objetos_genericos_comandos, t)
     /\ tem_verbo_integracao(lemas)
     /\ ~In("?", mensagem_original)
     /\ ~AnyIn(palavras_abstratas, t)
  THEN Resultado("system", "Comando com verbo de integração e objeto genérico")
  ELSE Nenhum

\* ---- Prioridade 2, 2A, 3 -----------------------------------------------

e_pergunta_direta_e_objetiva(texto, t) ==
  LET \* the alternatives of REGEX_PERGUNTA_FACTUAL
      termos_factuais ==
        <<"que dia e hoje", "data de hoje", "quem descobriu", "capital de",
         "definicao de", "quanto e", "resultado de">>
  IN \/ (Len(texto) <= 80 /\ EndsWith(texto, "?"))
     \/ AnyWordMatch(termos_factuais, t)

PerguntaDireta(mensagem_original, t) ==
  IF e_pergunta_direta_e_objetiva(mensagem_original, t)
  THEN Resultado("messages", "Pergunta direta/fechada detectada.")
  ELSE Nenhum

\* Sentences without a question mark that the language model tags as
\* questions (normalized); the model is an external collaborator.

\* eh_pergunta_interrogativa(mensagem_original), given _spacy_disponivel
eh_pergunta_interrogativa(disponivel, mensagem_original) ==
  LET PerguntasSemInterrogacao ==
        {"me explica como o git trabalha", "quero aprender sobre apis rest", "me fale sobre python"}
  IN
  disponivel = "True" /\ normalizar_texto(mensagem_original) \in PerguntasSemInterrogacao


PerguntaLinguistica(disponivel, mensagem_original, t) ==
  LET palavras_tecnicas_pergunta ==
        <<"como funciona", "o que e", "como usar", "quero entender",
         "quero aprender", "como fazer", "qual a diferenca", "me explique",
         "entender conceito", "entender os conceito",
         "git", "python", "javascript", "api", "sistema", "versionamento",
         "programacao", "codigo", "algoritmo", "tecnologia", "framework",
         "branch", "merge", "pull request", "commit", "database">>
  IN
  IF eh_pergunta_interrogativa(disponivel, mensagem_original)
  THEN IF AnyIn(palavras_tecnicas_pergunta, t)
       THEN Resultado("messages", "Pergunta técnica/conceitual (spaCy)")
       ELSE Resultado("messages", "Pergunta detectada por análise linguística")
  ELSE Nenhum


e_mensagem_complexa_ou_pessoal(texto, t) ==
  LET palavras_personalizacao ==
        <<"estou me sentindo", "queria entender melhor", "preciso de conselhos",
         "preciso de ajuda para", "gostaria de aprender", "com dificuldade",
         "sobrecarregado", "crescer profissionalmente", "estou buscando maneiras",
         "quero desenvolver", "procuro formas", "preciso repensar", "gostaria de feedback",
         "gostaria de melhorar">>
      palavras_tarefas_simples ==
        <<"plano de", "minhas ideias", "uma estrategia", "meus documentos", "preparar uma",
         "melhorar meu email", "criar um roteiro", "organizar pensamentos",
         "organizar prioridades", "criar um metodo", "otimizar meu">>
      \* REGEX_REFERENCIAS_PESSOAIS.search(texto)
      usa_referencias_pessoais ==
        AnyWordMatch(<<"meu", "minha", "minhas", "meus", "eu", "para mim", "no meu caso">>,
                     texto)
      \* REGEX_PLANO_ESTRATEGIA.search(texto)
      pede_um_plano_ou_estrategia ==
        AnyWordMatch(<<"plano", "passo a passo", "organizar", "estratégia", "roteiro",
                       "currículo", "proposta", "estudo">>, texto)
      \* len(REGEX_MULTIPLAS_FRASES.findall(texto)) > 1
      tem_multiplas_frases == CountChars(texto, {".", "?", "!", ";"}) > 1
      e_tarefa_simples == AnyIn(palavras_tarefas_simples, t) /\ Len(texto) < 80
      tem_personalizacao == AnyIn(palavras_personalizacao, t)
      tem_melhoria_pessoal ==
        \/ In("melhorar minha comunicacao", t)
        \/ (In("melhorar", t) /\ AnyIn(<<"relacionamento", "desempenho", "no trabalho">>, t))
  IN IF e_tarefa_simples THEN FALSE
     ELSE \/ usa_referencias_pessoais
          \/ pede_um_plano_ou_estrategia
          \/ tem_multiplas_frases
          \/ tem_personalizacao
          \/ tem_melhoria_pessoal

MensagemComplexa(mensagem_original, t) ==
  IF e_mensagem_complexa_ou_pessoal(mensagem_original, t)
  THEN Resultado("user", "Mensagem com necessidade de personalização/contexto.")
  ELSE Nenhum

\* ---- Prioridade 4: fallback by elimination ----------------------------

Fallback(mensagem_original, t) ==
  LET palavras_tecnicas ==
        <<"git", "python", "api", "codigo", "sistema", "funciona">>
      saudacoes_do_fallback ==
        <<"oi", "ola", "oie", "opa", "e ai", "bom dia", "boa tarde", "boa noite">>
      palavras_interrogativas ==
        {"como", "quando", "onde", "por que", "porque", "qual", "que", "quem"}
      pronomes_pessoais ==
        <<" meu ", " minha ", " meus ", " minhas ", " eu ", " me ", " comigo ">>
      tem_multiplas_frases ==
        (NonBlankSegments(mensagem_original, ".")
          + NonBlankSegments(mensagem_original, "?")
          + NonBlankSegments(mensagem_original, "!")) > 2
      eh_mensagem_longa == Len(mensagem_original) > 150
      eh_mensagem_muito_curta == Len(Strip(mensagem_original)) < 10
      tem_pronomes_pessoais == AnyIn(pronomes_pessoais, " " \o t \o " ")
      palavras == Split(t)
      tem_palavra_interrogativa ==
        \E i \in 1..Len(palavras) : palavras[i] \in palavras_interrogativas
  IN IF tem_multiplas_frases \/ eh_mensagem_longa
       THEN Resultado("user", "Mensagem longa ou com múltiplas ideias - requer contexto")
     ELSE IF tem_pronomes_pessoais
       THEN Resultado("user", "Contém contexto pessoal")
     ELSE IF eh_mensagem_muito_curta
       THEN (IF AnyIn(saudacoes_do_fallback, t)
             THEN Resultado("user", "Saudação conversacional")
             ELSE Resultado("unclear", "Mensagem muito curta sem contexto claro"))
     ELSE IF /\ tem_palavra_interrogativa
             /\ ~In("?", mensagem_original)
             /\ ~AnyIn(palavras_tecnicas, t)
       THEN Resultado("unclear", "Possível pergunta sem contexto claro")
     ELSE IF Len(Strip(mensagem_original)) < 20
       THEN Resultado("unclear", "Mensagem curta sem indicadores claros de intenção")
     ELSE Resultado("messages", "Mensagem genérica - classificação por eliminação")

\* The groups with the internal-command rule moved in front of the
\* ambiguity detectors: the order C6 rules out.
GruposComComandoInternoPrimeiro(mensagem_original, t) ==
  Primeiro(<<PreFiltroCurto(mensagem_original, t),
             MensagemDeTeste(mensagem_original, t),
             MensagemConversacional(t),
             ComandoInterno(t),
             DetectoresDeAmbiguidade(mensagem_original, t),
             MensagemLongaConversacional(mensagem_original, t),
             IncertezaSobreAcao(t),
             PerguntaComOpcoes(mensagem_original, t),
             PerguntaDeCapacidade(t),
             ComandoApiExterna(t)>>)

\* ---- determinar_categoria ---------------------------------------------
\* The rule groups that read neither the lemmatizer nor the language model,
\* in the order of the code, up to the external-API rule.
GruposAntesDaIntegracao(mensagem_original, t) ==
  Primeiro(<<PreFiltroCurto(mensagem_original, t),
             MensagemDeTeste(mensagem_original, t),
             MensagemConversacional(t),
             DetectoresDeAmbiguidade(mensagem_original, t),
             MensagemLongaConversacional(mensagem_original, t),
             IncertezaSobreAcao(t),
             PerguntaComOpcoes(mensagem_original, t),
             PerguntaDeCapacidade(t),
             ComandoInterno(t),
             ComandoApiExterna(t)>>)

\* The decision of determinar_categoria as a function of the texts, of the
\* lemmas the lemmatizer returns for the words of the normalized text and
\* of whether spaCy is available: the result of the first group that
\* decides, and the stage (etapa) it belongs to.  lematiza says whether
\* the integration group gets as far as calling the lemmatizer.
DecidirCategoria(mensagem_original, t, lemas, disponivel) ==
  LET antes == GruposAntesDaIntegracao(mensagem_original, t)
      integracao == IntegracaoGenerica(t, lemas)
      meio == Primeiro(<<NarrativaTerceiraPessoa(t),
                         TarefaPessoal(t),
                         PedidoDeAjuda(t),
                         SaudacaoInterrogativa(mensagem_original, t),
                         FraseCondicional(t)>>)
      comando == ComandoComObjetoGenerico(mensagem_original, t, lemas)
      direta == PerguntaDireta(mensagem_original, t)
      fim == Primeiro(<<PerguntaLinguistica(disponivel, mensagem_original, t),
                        MensagemComplexa(mensagem_original, t),
                        Fallback(mensagem_original, t)>>)
      Em(r, etapa) ==
        [categoria |-> r.categoria, motivos |-> r.motivos, etapa |-> etapa,
         lematiza |-> palavras_encontradas(t) # <<>> /\ ~ExcluidoDeIntegracao(t)]
  IN IF antes # Nenhum THEN Em(antes, "antes")
     ELSE IF integracao # Nenhum THEN Em(integracao, "integracao")
     ELSE IF meio # Nenhum THEN Em(meio, "meio")
     ELSE IF comando # Nenhum THEN Em(comando, "comando")
     ELSE IF direta # Nenhum THEN Em(direta, "direta")
     ELSE Em(fim, "fim")

(***************************************************************************)
(* Scope detector.                                                         *)
(***************************************************************************)
ScopeMail == "https://mail.google.com/"
ScopeCalendar == "https://www.googleapis.com/auth/calendar"
ScopeSheets == "https://www.googleapis.com/auth/spreadsheets"
ScopeDrive == "https://www.googleapis.com/auth/drive"
ScopeDocs == "https://www.googleapis.com/auth/documents"
ScopeBoleto == "boleto"

\* The table of known patterns, <<literal substring, scopes>>, first match
\* wins.
SCOPE_CACHE ==
  << <<"agendar reuniao", <<ScopeCalendar>> >>,
     <<"criar evento", <<ScopeCalendar>> >>,
     <<"marcar compromisso", <<ScopeCalendar>> >>,
     <<"enviar email", <<ScopeMail>> >>,
     <<"criar planilha", <<ScopeSheets, ScopeDrive>> >>,
     <<"compartilhar arquivo", <<ScopeDrive>> >>,
     <<"gerar boleto", <<ScopeBoleto>> >> >>

palavras_email == <<"gmail", "email", "e-mail">>
palavras_planilha == <<"sheet", "planilha", "tabela", "spreadsheet">>

tem_acao_email(t) ==
  LET acoes_email ==
        <<"envie", "mande", "escreva", "responda", "encaminhe", "send", "reply", "forward">>
  IN
  AnyIn(acoes_email, t)
tem_palavra_email(t) == AnyIn(palavras_email, t)
tem_acao_calendario(t) ==
  LET acoes_calendario ==
        <<"agende", "marque", "crie evento", "adicione evento", "schedule", "book">>
  IN
  AnyIn(acoes_calendario, t)
tem_palavra_calendario(t) ==
  LET palavras_calendario ==
        <<"calendar", "agenda", "evento", "reuniao", "meeting",
         "aula", "sala", "hoje", "amanha", "hr", ":",
         "segunda", "terca", "quarta", "quinta", "sexta", "sabado", "domingo">>
  IN
  AnyIn(palavras_calendario, t)
tem_multiplas_acoes(t) ==
  LET conectores_multiplas_acoes ==
        <<"e depois", "tambem", "alem disso", "and then", "also">>
  IN
  AnyIn(conectores_multiplas_acoes, t)

\* The keyword rules without the early returns of the spreadsheet and the
\* document branches: every keyword group appends its tokens.  C11 tells it
\* from ScopesPorPalavraChave.
ScopesPorPalavraChaveSemRetorno(t) ==
  (IF AnyIn(<<"calendar", "agenda", "evento">>, t) THEN <<ScopeCalendar>>
   ELSE IF In("compromisso", t) /\ ~tem_acao_email(t) THEN <<ScopeCalendar>>
   ELSE <<>>)
  \o (IF AnyIn(palavras_planilha, t) THEN <<ScopeSheets, ScopeDrive>> ELSE <<>>)
  \o (IF AnyIn(<<"documento", "document", "doc", "arquivo", "file", "pdf">>, t)
      THEN <<ScopeDrive, ScopeDocs>> ELSE <<>>)
  \o (IF AnyIn(palavras_email, t) THEN <<ScopeMail>> ELSE <<>>)
  \o (IF In("drive", t) THEN <<ScopeDrive>> ELSE <<>>)
  \o (IF AnyIn(<<"boleto", "fatura", "cobranca">>, t) THEN <<ScopeBoleto>> ELSE <<>>)

\* the keyword fallback of detectar_scopes ("lógica tradicional")
ScopesPorPalavraChave(t) ==
  LET palavras_boleto ==
        <<"boleto", "fatura", "cobranca">>
      palavras_documento ==
        <<"documento", "document", "doc", "arquivo", "file", "pdf">>
      calendario ==
        IF AnyIn(<<"calendar", "agenda", "evento">>, t) THEN <<ScopeCalendar>>
        ELSE IF In("compromisso", t) /\ ~tem_acao_email(t) THEN <<ScopeCalendar>>
        ELSE <<>>
  IN IF AnyIn(palavras_planilha, t)
       THEN calendario \o <<ScopeSheets, ScopeDrive>>
     ELSE IF AnyIn(palavras_documento, t)
       THEN calendario \o <<ScopeDrive, ScopeDocs>>
     ELSE calendario
          \o (IF AnyIn(palavras_email, t) THEN <<ScopeMail>> ELSE <<>>)
          \o (IF In("drive", t) THEN <<ScopeDrive>> ELSE <<>>)
          \o (IF AnyIn(palavras_boleto, t) THEN <<ScopeBoleto>> ELSE <<>>)

\* The action-precedence rules without the test for a connector: an email
\* action with a calendar word always yields both scopes.  C10 tells it
\* from ScopesPorAcao.
ScopesPorAcaoSemConector(t) ==
  IF /\ tem_acao_email(t) /\ tem_palavra_email(t)
     /\ (tem_acao_calendario(t) \/ tem_palavra_calendario(t))
    THEN <<ScopeMail, ScopeCalendar>>
  ELSE IF tem_acao_email(t) /\ tem_palavra_email(t)
    THEN <<ScopeMail>>
  ELSE IF tem_acao_calendario(t) /\ (tem_palavra_calendario(t) \/ In("compromisso", t))
    THEN <<ScopeCalendar>>
  ELSE <<>>

\* the action-precedence rules of detectar_scopes, <<>> when none applies
ScopesPorAcao(t) ==
  IF /\ tem_acao_email(t) /\ tem_palavra_email(t)
     /\ (tem_acao_calendario(t) \/ tem_palavra_calendario(t))
     /\ tem_multiplas_acoes(t)
    THEN <<ScopeMail, ScopeCalendar>>
  ELSE IF tem_acao_email(t) /\ tem_palavra_email(t)
    THEN <<ScopeMail>>
  ELSE IF tem_acao_calendario(t) /\ (tem_palavra_calendario(t) \/ In("compromisso", t))
    THEN <<ScopeCalendar>>
  ELSE <<>>

\* DetectorDeScopes.detectar_scopes(texto_normalizado)
detectar_scopes(t) ==
  IF TemPadrao(SCOPE_CACHE, t) THEN PrimeiroPadrao(SCOPE_CACHE, t)[2]
  ELSE IF ScopesPorAcao(t) # <<>> THEN ScopesPorAcao(t)
  ELSE ScopesPorPalavraChave(t)

(***************************************************************************)
(* The messages the specifications work with.  The text analyses are       *)
(* computed once for them and looked up afterwards; for any other          *)
(* argument the operators are evaluated directly, so the tabulated         *)
(* operators have the same values as the ones they tabulate.               *)
(***************************************************************************)
Corpus ==
  { "oi",
    "ok",
    "documento",
    "obrigado pela ajuda",
    "Qual a capital do Brasil?",
    "crie uma planilha",
    "Agende uma reunião amanhã às 14h",
    "envie a planilha por email",
    "coloque a planilha na agenda",
    "Revisar o currículo da vaga",
    "revisar o curriculo da vaga",
    "você pode enviar email?",
    "fernando cancelou o arquivo ontem",
    "eles cancelaram o arquivo",
    "ele deletou o arquivo ontem sem querer",
    "maria enviou o email para o cliente",
    "faz o resto e limpa o cache",
    "ok, faz o resto e limpa o cache",
    "limpa o cache",
    "nao sei se voce pode enviar email",
    "voce pode criar ou editar a planilha?",
    "tem como agendar uma reuniao",
    "da pra enviar um email para o joao",
    "envie um email sobre a reuniao",
    "mande um email e depois marque na agenda",
    "envie um email para o joao e tambem agende uma reuniao",
    "enviar email com a planilha",
    "criar planilha de gastos",
    "teste 123",
    "como",
    "isso",
    "manda pra ela",
    "gera o documento",
    "me ajuda",
    "gerar boleto de 100 reais",
    "compartilhar arquivo com a equipe",
    "preciso organizar minha semana",
    "What is the meeting time?",
    "bom dia, tudo bem?",
    "sincronize os arquivos",
    "eu gostaria de agradecer a todos pelo apoio e dizer que manda pra ela o relatorio de vendas do mes passado quando puder",
    "eu gostaria muito de saber se voce consegue mandar isso para o pessoal do escritorio e depois limpa o cache do sistema",
    "envia isso e limpa o cache",
    "salva e envia o arquivo",
    "voce consegue criar uma planilha",
    "criar documento",
    "abre a tabela de precos e manda email para o cliente",
    "marque na agenda e atualize a planilha",
    "salve a planilha no drive",
    "abra o documento do drive",
    "talvez responda",
    "enviar email para joao e maria" }

\* the corpus and the non-empty messages of the request payloads
MensagensTabuladas ==
  Corpus \cup { "Revisar o currículo da vaga", "revisar o curriculo da vaga",
                "crie uma planilha", "oi", "None" }

LemasPossiveis(palavra) ==
  IF NoEstatico(palavra) THEN {LemaEstatico(palavra)}
  ELSE {palavra, SpacyDoc(palavra).lemma}

RECURSIVE SequenciasDeLemas(_)
SequenciasDeLemas(palavras) ==
  IF palavras = <<>> THEN {<<>>}
  ELSE {<<lema>> \o resto : lema \in LemasPossiveis(Head(palavras)),
                           resto \in SequenciasDeLemas(Tail(palavras))}

TabelaDeNormalizacao == [m \in MensagensTabuladas |-> normalizar_texto(m)] @@ <<>>

TextoNormalizado(m) ==
  IF m \in DOMAIN TabelaDeNormalizacao THEN TabelaDeNormalizacao[m] ELSE normalizar_texto(m)

TabelaDeDecisao ==
  [k \in UNION {{m} \X SequenciasDeLemas(Split(TabelaDeNormalizacao[m])) \X {"True", "False"} :
                  m \in MensagensTabuladas} |->
     DecidirCategoria(k[1], TabelaDeNormalizacao[k[1]], k[2], k[3])] @@ <<>>

TabelaDeScopes == [t \in {TabelaDeNormalizacao[m] : m \in MensagensTabuladas} |-> detectar_scopes(t)] @@ <<>>

Scopes(t) == IF t \in DOMAIN TabelaDeScopes THEN TabelaDeScopes[t] ELSE detectar_scopes(t)

\* Classificador.determinar_categoria(mensagem_original, texto_normalizado)
\* run with the lemmatizer in state L: the category, the reasons and the
\* lemmatizer state it leaves.
determinar_categoria(L, mensagem_original, t, instalado, io_ok) ==
  LET lem == LematizarPalavras(L, Split(t), instalado, io_ok)
      P == verificar_spacy_disponivel(lem.L, instalado)
      Retorno(d) ==
        [categoria |-> d.categoria,
         motivos |-> d.motivos,
         L |-> CASE d.etapa = "antes" -> L
                 [] d.etapa = "meio" -> IF d.lematiza THEN lem.L ELSE L
                 [] d.etapa = "fim" -> P
                 [] OTHER -> lem.L]
  IN Retorno(IF /\ <<mensagem_original, lem.lemas, P.disponivel>> \in DOMAIN TabelaDeDecisao
                /\ t = TabelaDeNormalizacao[mensagem_original]
             THEN TabelaDeDecisao[<<mensagem_original, lem.lemas, P.disponivel>>]
             ELSE DecidirCategoria(mensagem_original, t, lem.lemas, P.disponivel))

(***************************************************************************)
(* Language detector and payload builder.                                  *)
(***************************************************************************)
\* DetectorDeIdioma.determinar_idioma(texto)
determinar_idioma(texto) ==
  LET REGEX_PT_INDICADORES ==
        CountChars(MapLower(texto), {"ã", "õ", "ç", "á", "é", "í", "ó", "ú", "à", "ê", "ô"}) > 0
      REGEX_PT_PALAVRAS ==
        AnyWordMatch(<<"que", "como", "quando", "onde", "reuniao", "calendario">>, texto)
      REGEX_EN_PALAVRAS ==
        AnyWordMatch(<<"what", "how", "when", "where", "meeting", "calendar">>, texto)
  IN IF REGEX_EN_PALAVRAS /\ ~(REGEX_PT_INDICADORES \/ REGEX_PT_PALAVRAS) THEN "en" ELSE "pt"

TabelaDeIdioma == [m \in MensagensTabuladas |-> determinar_idioma(m)] @@ <<>>

\* A request payload is a record [message, ctx, history] of tagged values:
\*   message  [tipo |-> "ausente"], [tipo |-> "None"], [tipo |-> "int", valor],
\*            [tipo |-> "str", valor]
\*   ctx      [tipo |-> "ausente"], [tipo |-> "None"], [tipo |-> "str"],
\*            [tipo |-> "dict", lang, temperature, model]; in a dict, lang and
\*            model are "" when absent and temperature is [tipo |-> "ausente"],
\*            [tipo |-> "num", decimos], [tipo |-> "str", decimos] (a numeric
\*            string), [tipo |-> "texto"] (a non-numeric string) or
\*            [tipo |-> "None"]
\*   history  [tipo |-> "ausente"], [tipo |-> "outro"] (not a list),
\*            [tipo |-> "list", itens]; an item is [tipo |-> "dict", role,
\*            content] (role or content "" when the key is missing) or
\*            [tipo |-> "outro"]
\* Temperatures are counted in tenths.

\* str(mensagem) for payload.get("message", "")
PyStr(message) ==
  CASE message.tipo = "ausente" -> ""
    [] message.tipo = "None" -> "None"
    [] message.tipo = "int" -> message.valor
    [] message.tipo = "str" -> message.valor

\* The message taken from the payload without trimming it: C5 tells it
\* from _extrair_mensagem_do_payload.
extrair_mensagem_sem_strip(payload) == PyStr(payload.message)

\* _extrair_mensagem_do_payload()
extrair_mensagem_do_payload(payload) == Strip(PyStr(payload.message))

Excecao(classe) == [tipo |-> "excecao", classe |-> classe]
EhExcecao(v) == v.tipo = "excecao"

Min(a, b) == IF a < b THEN a ELSE b

\* _calcular_parametros_da_ia(categoria)
calcular_parametros_da_ia(contexto, categoria) ==
  LET \* float(self.contexto.get("temperature", 1.0)), in tenths, or the exception
      base ==
        CASE contexto.temperature.tipo = "ausente" -> [tipo |-> "float", decimos |-> 10]
          [] contexto.temperature.tipo = "num" ->
               [tipo |-> "float", decimos |-> contexto.temperature.decimos]
          [] contexto.temperature.tipo = "str" ->
               [tipo |-> "float", decimos |-> contexto.temperature.decimos]
          [] contexto.temperature.tipo = "texto" -> Excecao("ValueError")
          [] contexto.temperature.tipo = "None" -> Excecao("TypeError")
      t == base.decimos
  IN IF EhExcecao(base) THEN base
     ELSE IF categoria = "messages" THEN [tipo |-> "dict", temperature |-> Min(t, 10), max_tokens |-> 800]
     ELSE IF categoria = "system" THEN [tipo |-> "dict", temperature |-> Min(t, 7), max_tokens |-> 1200]
     ELSE IF categoria = "unclear" THEN [tipo |-> "dict", temperature |-> Min(t, 8), max_tokens |-> 600]
     ELSE [tipo |-> "dict", temperature |-> Min(t, 10), max_tokens |-> 2000]

\* _selecionar_modelo_ia(categoria)
selecionar_modelo_ia(contexto, categoria) ==
  IF contexto.model # "" THEN contexto.model ELSE "gpt-4o"

\* _obter_prompt_categoria(categoria): which of the five prompt texts
obter_prompt_categoria(categoria) ==
  IF categoria \in {"system", "user", "messages", "unclear"} THEN categoria ELSE "geral"

\* _criar_prompts_de_sistema(categoria, idioma, texto_normalizado): the four
\* system prompts (by what they are built from) and the scopes
criar_prompts_de_sistema(categoria, idioma, t) ==
  LET scope_detectadas == IF categoria = "system" THEN Scopes(t) ELSE <<>>
      scope_str == IF scope_detectadas = <<>> THEN "nenhuma" ELSE JoinComma(scope_detectadas)
  IN [prompts |->
        <<[role |-> "system",
           content |-> IF idioma = "en" THEN "Reply in English."
                       ELSE "Responda em português do Brasil."],
          [role |-> "system", content |-> "prompt_base: " \o scope_str],
          [role |-> "system", content |-> "prompt_categoria: " \o obter_prompt_categoria(categoria)],
          [role |-> "system", content |-> "lembrete_final"]>>,
      scope |-> scope_detectadas]

\* _obter_historico_da_conversa()
obter_historico_da_conversa(payload) ==
  IF payload.history.tipo # "list" THEN <<>>
  ELSE LET validos == SelectSeq(payload.history.itens,
                        LAMBDA msg : msg.tipo = "dict" /\ msg.role # "" /\ msg.content # "")
           historico_valido == [i \in 1..Len(validos) |->
                                  [role |-> validos[i].role, content |-> validos[i].content]]
       IN SubSeq(historico_valido,
                 IF Len(historico_valido) > 3 THEN Len(historico_valido) - 2 ELSE 1,
                 Len(historico_valido))

\* ConstrutorDePayload.construir_payload(categoria, mensagem_original,
\* texto_normalizado): [payload, scope], or the exception it raises
construir_payload(payload, categoria, mensagem_original, t) ==
  LET contexto ==  \* self.contexto = payload.get("ctx", {})
        IF payload.ctx.tipo = "ausente"
        THEN [tipo |-> "dict", lang |-> "", temperature |-> [tipo |-> "ausente"], model |-> ""]
        ELSE payload.ctx
  IN IF contexto.tipo # "dict" THEN Excecao("AttributeError")
     ELSE LET idioma == IF contexto.lang # "" THEN contexto.lang
                        ELSE IF mensagem_original \in DOMAIN TabelaDeIdioma
                             THEN TabelaDeIdioma[mensagem_original]
                             ELSE determinar_idioma(mensagem_original)
              ps == criar_prompts_de_sistema(categoria, idioma, t)
              mensagens == ps.prompts \o obter_historico_da_conversa(payload)
                             \o <<[role |-> "user", content |-> mensagem_original]>>
              parametros == calcular_parametros_da_ia(contexto, categoria)
          IN IF EhExcecao(parametros) THEN parametros
             ELSE [tipo |-> "tupla",
                   payload |-> [model |-> selecionar_modelo_ia(contexto, categoria),
                                messages |-> mensagens,
                                temperature |-> parametros.temperature,
                                max_tokens |-> parametros.max_tokens],
                   scope |-> ps.scope]

(***************************************************************************)
(* Result cache: a TTLCache.  The entries [key, valor, expira] are kept    *)
(* in order of last use, least recently used first.                        *)
(***************************************************************************)
\* GerenciadorDeCache.gerar_cache_key(mensagem): the digest of the
\* normalized message; a digest is taken to identify its input, so the key
\* is written as the normalized text itself
gerar_cache_key(texto) == TextoNormalizado(texto)

Vivo(e, agora_) == agora_ < e.expira
TemChaveViva(cache, key, agora_) ==
  \E i \in 1..Len(cache) : cache[i].key = key /\ Vivo(cache[i], agora_)
Posicao(cache, key) == CHOOSE i \in 1..Len(cache) : cache[i].key = key
SemChave(cache, key) == SelectSeq(cache, LAMBDA e : e.key # key)

\* classificacao_cache.get(cache_key): the value or None, and the cache
\* with the entry moved to the most recently used end
CacheGet(cache, key, agora_) ==
  IF TemChaveViva(cache, key, agora_)
  THEN [valor |-> cache[Posicao(cache, key)].valor,
        cache |-> SemChave(cache, key) \o <<cache[Posicao(cache, key)]>>]
  ELSE [valor |-> [tipo |-> "None"], cache |-> cache]

\* classificacao_cache[cache_key] = resultado: expired entries are dropped,
\* then least recently used ones while the cache is full
CacheSet(cache, key, valor, agora_) ==
  LET vivos == SelectSeq(cache, LAMBDA e : Vivo(e, agora_))
      outros == SemChave(vivos, key)
      cabem == IF Len(outros) >= CacheMaxSize
               THEN SubSeq(outros, Len(outros) - CacheMaxSize + 2, Len(outros))
               ELSE outros
  IN cabem \o <<[key |-> key, valor |-> valor, expira |-> agora_ + CacheTTL]>>

(***************************************************************************)
(* The service: requests handled by AnalisadorDeMensagem over the shared   *)
(* result cache, the metrics and the lemmatizer state.                     *)
(***************************************************************************)
VARIABLES
  classificacao_cache,  \* metrics.classificacao_cache
  metricas,             \* metrics.metricas: cache_hits, cache_misses
  agora,                \* the cache timer
  lematizador,          \* the module state of utils/lematizador.py
  spacy_instalado,      \* whether spaCy and its Portuguese model can be loaded
  requisicoes,          \* number of requests handled
  chamada,              \* the last call of processar_mensagem and its outcome
  mensagem,             \* the message given to the classifier on its own
  analise,              \* what the classifier and the scope detector returned for it
  save_lock,            \* _save_lock: 0 when free, else the thread that holds it
  threads               \* where each thread stands in salvar_dicionario_aprendido

vars == <<classificacao_cache, metricas, agora, lematizador, spacy_instalado,
          requisicoes, chamada, mensagem, analise, save_lock, threads>>

\* the threads that call into the lemmatizer at the same time
Threads == {1, 2}

\* The request payloads the service is driven with.
Payloads ==
  LET Str(valor) == [tipo |-> "str", valor |-> valor]
      Ausente == [tipo |-> "ausente"]
      PyNone == [tipo |-> "None"]
      Dict(lang, temperature, model) ==
        [tipo |-> "dict", lang |-> lang, temperature |-> temperature, model |-> model]
      Num(decimos) == [tipo |-> "num", decimos |-> decimos]
      Item(role, content) == [tipo |-> "dict", role |-> role, content |-> content]
      Lista(itens) == [tipo |-> "list", itens |-> itens]
      Payload(message, ctx, history) == [message |-> message, ctx |-> ctx, history |-> history]
  IN
  { Payload(Ausente, Ausente, Ausente),
    Payload(Str("  "), PyNone, Ausente),
    Payload(Str("Revisar o currículo da vaga"), Ausente, Ausente),
    Payload(Str("revisar o curriculo da vaga"), Dict("en", Num(3), "gpt-4o-mini"), Ausente),
    Payload(Str("crie uma planilha"), Dict("pt", Num(9), ""),
            Lista(<<Item("user", "oi"), [tipo |-> "outro"], Item("assistant", "ola"),
                    Item("user", ""), Item("user", "tudo bem"), Item("assistant", "sim")>>)),
    Payload(Str(" crie uma planilha "), [tipo |-> "str"], Ausente),
    Payload(Str("oi"), Dict("", [tipo |-> "texto"], ""), [tipo |-> "outro"]),
    Payload(PyNone, Dict("", PyNone, ""), Ausente) }

\* _construir_payload_de_erro_para_entrada_vazia()
construir_payload_de_erro_para_entrada_vazia(payload) ==
  [tipo |-> "resultado",
   payload |-> payload,
   error |-> "EMPTY_INPUT",
   openaiPayload |->
     [messages |-> <<[role |-> "assistant",
                     content |-> "Não recebi sua mensagem. Pode reenviar, por favor?"]>>]]

\* resposta_final of processar_mensagem, built from what construir_payload
\* returned; the exception when construir_payload raised one
resposta_final(payload, mensagem_usuario, t, construido, categoria, motivos) ==
  IF EhExcecao(construido) THEN construido
  ELSE [tipo |-> "resultado",
        payload |-> payload,
        mensagem_completa |-> mensagem_usuario,
        texto_normalizado |-> t,
        openaiPayload |-> construido.payload,
        classification |-> [bucket |-> categoria, reasons |-> motivos,
                            scope |-> construido.scope]]

\* Steps 6 and 7 of processar_mensagem, after the classifier returned c for
\* the normalized text t: the response or the exception raised, and the
\* lemmatizer state the classifier left.
Pipeline(payload, mensagem_usuario, t, c) ==
  [L |-> c.L,
   resultado |->
     resposta_final(payload, mensagem_usuario, t,
                    construir_payload(payload, c.categoria, mensagem_usuario, t),
                    c.categoria, c.motivos)]

\* obter_do_cache counting every lookup as a miss.  C23 tells it from
\* obter_do_cache.
obter_do_cache_conta_falha(cache, m, key, agora_) ==
  [valor |-> CacheGet(cache, key, agora_).valor,
   cache |-> CacheGet(cache, key, agora_).cache,
   metricas |-> [m EXCEPT !.cache_misses = @ + 1]]

\* GerenciadorDeCache.obter_do_cache(cache_key): the value, the cache and
\* the metrics it leaves
obter_do_cache(cache, m, key, agora_) ==
  LET g == CacheGet(cache, key, agora_)
  IN IF g.valor.tipo # "None"
     THEN [valor |-> g.valor, cache |-> g.cache,
           metricas |-> [m EXCEPT !.cache_hits = @ + 1]]
     ELSE [valor |-> g.valor, cache |-> g.cache,
           metricas |-> [m EXCEPT !.cache_misses = @ + 1]]

\* GerenciadorDeCache.salvar_no_cache(cache_key, resultado)
salvar_no_cache(cache, key, resultado, agora_) == CacheSet(cache, key, resultado, agora_)

\* AnalisadorDeMensagem(payload).processar_mensagem() in the current state:
\* what it returns or raises, whether the cache answered, and the cache,
\* the metrics and the lemmatizer state it leaves
processar_mensagem(payload, io_ok) ==
  CHOOSE retorno \in
    { IF mensagem_usuario = ""
      THEN [resultado |-> construir_payload_de_erro_para_entrada_vazia(payload),
            cache_hit |-> FALSE, cache |-> classificacao_cache,
            metricas |-> metricas, L |-> lematizador]
      ELSE CHOOSE com_cache \in
        { IF lido.valor.tipo # "None"
          THEN [resultado |-> lido.valor, cache_hit |-> TRUE, cache |-> lido.cache,
                metricas |-> lido.metricas, L |-> lematizador]
          ELSE CHOOSE computado \in
            { [resultado |-> p.resultado, cache_hit |-> FALSE,
               cache |-> IF EhExcecao(p.resultado) THEN lido.cache
                         ELSE salvar_no_cache(lido.cache,
                                              gerar_cache_key(mensagem_usuario),
                                              p.resultado, agora),
               metricas |-> lido.metricas, L |-> p.L]
              : p \in {Pipeline(payload, mensagem_usuario,
                                TextoNormalizado(mensagem_usuario),
                                determinar_categoria(lematizador, mensagem_usuario,
                                                     TextoNormalizado(mensagem_usuario),
                                                     spacy_instalado, io_ok))} } : TRUE
          : lido \in {obter_do_cache(classificacao_cache, metricas,
                                     gerar_cache_key(mensagem_usuario), agora)} } : TRUE
      : mensagem_usuario \in {extrair_mensagem_do_payload(payload)} } : TRUE

\* A call of AnalisadorDeMensagem(payload).processar_mensagem() whose result
\* is handed on as it is (POST /preprocess)
ProcessarMensagem(payload, io_ok) ==
  /\ requisicoes < MaxRequests
  /\ requisicoes' = requisicoes + 1
  /\ \E r \in {processar_mensagem(payload, io_ok)} :
       /\ chamada' = [tipo |-> "processar_mensagem", payload |-> payload,
                      cache_hit |-> r.cache_hit, resultado |-> r.resultado]
       /\ classificacao_cache' = r.cache
       /\ metricas' = r.metricas
       /\ lematizador' = r.L
  /\ UNCHANGED <<agora, spacy_instalado, mensagem, analise, save_lock, threads>>

\* POST /webhook: webhook_whatsapp(payload).  The dict processar_mensagem
\* returns is the object it stored in the cache (on a miss) or took from it
\* (on a hit), so the item assignment resultado_final["webhook"] = ... is
\* made on the cached value as well; the sentinel of an empty message is a
\* fresh dict.
WebhookWhatsapp(from_number, message, io_ok) ==
  /\ requisicoes < MaxRequests
  /\ requisicoes' = requisicoes + 1
  /\ \E payload_processado \in
          {[message |-> [tipo |-> "str", valor |-> message],
            ctx |-> [tipo |-> "dict", lang |-> "pt",
                     temperature |-> [tipo |-> "num", decimos |-> 3], model |-> ""],
            from |-> from_number,
            history |-> [tipo |-> "list", itens |-> <<>>]]} :
     \E r \in {processar_mensagem(payload_processado, io_ok)} :
     \E resultado_final \in
          {("webhook" :> [from |-> from_number, received_at |-> agora])
             @@ r.resultado} :
       /\ chamada' = [tipo |-> "webhook_whatsapp", payload |-> payload_processado,
                      cache_hit |-> r.cache_hit, resultado |-> resultado_final]
       /\ classificacao_cache' =
            [i \in 1..Len(r.cache) |->
               IF /\ "error" \notin DOMAIN r.resultado
                  /\ r.cache[i].key = gerar_cache_key(
                                        extrair_mensagem_do_payload(payload_processado))
               THEN [r.cache[i] EXCEPT !.valor = resultado_final]
               ELSE r.cache[i]]
       /\ metricas' = r.metricas
       /\ lematizador' = r.L
  /\ UNCHANGED <<agora, spacy_instalado, mensagem, analise, save_lock, threads>>

\* The cache timer advances.
Tick ==
  /\ agora < MaxTime
  /\ agora' = agora + 1
  /\ UNCHANGED <<classificacao_cache, metricas, lematizador, spacy_instalado,
                 requisicoes, chamada, mensagem, analise, save_lock, threads>>

Pendente ==
  [classificada |-> FALSE, categoria |-> "", motivos |-> <<>>,
   repetida |-> FALSE, categoria2 |-> "", motivos2 |-> <<>>,
   detectados |-> FALSE, scope |-> <<>>]

Init ==
  /\ classificacao_cache = <<>>
  /\ metricas = [cache_hits |-> 0, cache_misses |-> 0]
  /\ agora = 0
  /\ lematizador = EstadoInicialDoLematizador
  /\ spacy_instalado \in BOOLEAN
  /\ requisicoes = 0
  /\ chamada = [tipo |-> "nenhuma"]
  /\ mensagem = ""
  /\ analise = Pendente
  /\ save_lock = 0
  /\ threads = [t \in Threads |-> "fora"]

Next ==
  \/ \E payload \in Payloads, io_ok \in BOOLEAN : ProcessarMensagem(payload, io_ok)
  \/ \E from_number \in {"5511999999999"}, message \in {"crie uma planilha", "  "},
        io_ok \in BOOLEAN :
       WebhookWhatsapp(from_number, message, io_ok)
  \/ Tick

Spec == Init /\ [][Next]_vars

(***************************************************************************)
(* The classifier and the scope detector on their own: a message of the    *)
(* corpus is classified, and scopes are detected in its normalized text.   *)
(***************************************************************************)
\* Classificador.determinar_categoria(mensagem, normalizar_texto(mensagem))
Classificar(io_ok) ==
  /\ ~analise.classificada
  /\ \E c \in {determinar_categoria(lematizador, mensagem, TextoNormalizado(mensagem),
                                     spacy_instalado, io_ok)} :
        /\ analise' = [analise EXCEPT !.classificada = TRUE,
                                      !.categoria = c.categoria,
                                      !.motivos = c.motivos]
        /\ lematizador' = c.L
  /\ UNCHANGED <<classificacao_cache, metricas, agora, spacy_instalado, requisicoes,
                 chamada, mensagem, save_lock, threads>>

\* determinar_categoria called a second time in the same process for the
\* same message
Reclassificar(io_ok) ==
  /\ analise.classificada
  /\ ~analise.repetida
  /\ \E c \in {determinar_categoria(lematizador, mensagem, TextoNormalizado(mensagem),
                                     spacy_instalado, io_ok)} :
        /\ analise' = [analise EXCEPT !.repetida = TRUE,
                                      !.categoria2 = c.categoria,
                                      !.motivos2 = c.motivos]
        /\ lematizador' = c.L
  /\ UNCHANGED <<classificacao_cache, metricas, agora, spacy_instalado, requisicoes,
                 chamada, mensagem, save_lock, threads>>

\* DetectorDeScopes.detectar_scopes(normalizar_texto(mensagem))
DetectarScopes ==
  /\ ~analise.detectados
  /\ analise' = [analise EXCEPT !.detectados = TRUE,
                                !.scope = Scopes(TextoNormalizado(mensagem))]
  /\ UNCHANGED <<classificacao_cache, metricas, agora, lematizador, spacy_instalado,
                 requisicoes, chamada, mensagem, save_lock, threads>>

InitClassificador ==
  /\ classificacao_cache = <<>>
  /\ metricas = [cache_hits |-> 0, cache_misses |-> 0]
  /\ agora = 0
  /\ lematizador = EstadoInicialDoLematizador
  /\ spacy_instalado \in BOOLEAN
  /\ requisicoes = 0
  /\ chamada = [tipo |-> "nenhuma"]
  /\ mensagem \in Corpus
  /\ analise = Pendente
  /\ save_lock = 0
  /\ threads = [t \in Threads |-> "fora"]

NextClassificador ==
  \/ \E io_ok \in BOOLEAN : Classificar(io_ok)
  \/ \E io_ok \in BOOLEAN : Reclassificar(io_ok)
  \/ DetectarScopes

SpecClassificador == InitClassificador /\ [][NextClassificador]_vars

(***************************************************************************)
(* The lemmatizer on its own: words are looked up while the dictionaries   *)
(* are extended, flushed, reloaded and reset through the module's public   *)
(* functions.                                                              *)
(***************************************************************************)
\* the record of a call into the lemmatizer and of its outcome
ChamadaDoLematizador(tipo, palavra, lemma, erro, io_ok) ==
  [tipo |-> tipo, palavra |-> palavra, lemma |-> lemma, erro |-> erro, io_ok |-> io_ok]

\* lematizar_palavra(palavra).  sonda_ok is false when importing or loading
\* the model raises something that is neither ImportError nor OSError: the
\* probe lets it through and remembers nothing.
LematizarPalavra(palavra, io_ok, doc, sonda_ok) ==
  /\ IF /\ ~sonda_ok
        /\ lematizador.disponivel = "None"
        /\ palavra \notin DOMAIN lematizador.memo
        /\ palavra \notin DOMAIN lematizador.estatico
        /\ ~NoEstatico(palavra)
        /\ palavra \notin DOMAIN lematizador.aprendido
     THEN /\ chamada' = ChamadaDoLematizador("lematizar_palavra", palavra, "",
                                              "Exception", io_ok)
          /\ UNCHANGED lematizador
     ELSE \E r \in {lematizar_palavra_com(lematizador, palavra, spacy_instalado,
                                          io_ok, doc)} :
            /\ chamada' = ChamadaDoLematizador("lematizar_palavra", palavra, r.lemma,
                                                r.erro, io_ok)
            /\ lematizador' = r.L
  /\ requisicoes' = requisicoes + 1
  /\ UNCHANGED <<classificacao_cache, metricas, agora, spacy_instalado, mensagem,
                 analise, save_lock, threads>>

\* adicionar_ao_dicionario_aprendido(palavra, lemma) called directly
AdicionarAoDicionario(palavra, lemma, io_ok) ==
  /\ IF lematizador.forma = "list" /\ palavra \notin DOMAIN lematizador.aprendido
     THEN /\ chamada' = ChamadaDoLematizador("adicionar_ao_dicionario_aprendido",
                                              palavra, lemma, "TypeError", io_ok)
          /\ UNCHANGED lematizador
     ELSE /\ chamada' = ChamadaDoLematizador("adicionar_ao_dicionario_aprendido",
                                              palavra, lemma, "", io_ok)
          /\ lematizador' = adicionar_ao_dicionario_aprendido(lematizador, palavra,
                                                              lemma, io_ok)
  /\ requisicoes' = requisicoes + 1
  /\ UNCHANGED <<classificacao_cache, metricas, agora, spacy_instalado, mensagem,
                 analise, save_lock, threads>>

\* adicionar_verbo(infinitivo, conjugacoes)
AdicionarVerbo(infinitivo, conjugacoes) ==
  /\ chamada' = ChamadaDoLematizador("adicionar_verbo", infinitivo, infinitivo, "", TRUE)
  /\ lematizador' = adicionar_verbo(lematizador, infinitivo, conjugacoes)
  /\ requisicoes' = requisicoes + 1
  /\ UNCHANGED <<classificacao_cache, metricas, agora, spacy_instalado, mensagem,
                 analise, save_lock, threads>>

\* salvar_dicionario_aprendido(force=True)
SalvarDicionario(io_ok) ==
  /\ chamada' = ChamadaDoLematizador("salvar_dicionario_aprendido", "", "", "", io_ok)
  /\ lematizador' = salvar_dicionario_aprendido(lematizador, TRUE, io_ok)
  /\ requisicoes' = requisicoes + 1
  /\ UNCHANGED <<classificacao_cache, metricas, agora, spacy_instalado, mensagem,
                 analise, save_lock, threads>>

\* carregar_dicionario_aprendido() called again
CarregarDicionario ==
  /\ chamada' = ChamadaDoLematizador("carregar_dicionario_aprendido", "", "", "", TRUE)
  /\ lematizador' = carregar_dicionario_aprendido(lematizador)
  /\ requisicoes' = requisicoes + 1
  /\ UNCHANGED <<classificacao_cache, metricas, agora, spacy_instalado, mensagem,
                 analise, save_lock, threads>>

\* resetar_dicionario_aprendido()
ResetarDicionario ==
  /\ chamada' = ChamadaDoLematizador("resetar_dicionario_aprendido", "", "", "", TRUE)
  /\ lematizador' = resetar_dicionario_aprendido(lematizador)
  /\ requisicoes' = requisicoes + 1
  /\ UNCHANGED <<classificacao_cache, metricas, agora, spacy_instalado, mensagem,
                 analise, save_lock, threads>>

\* limpar_cache(): lematizar_palavra.cache_clear()
LimparCache ==
  /\ chamada' = ChamadaDoLematizador("limpar_cache", "", "", "", TRUE)
  /\ lematizador' = [lematizador EXCEPT !.memo = <<>>]
  /\ requisicoes' = requisicoes + 1
  /\ UNCHANGED <<classificacao_cache, metricas, agora, spacy_instalado, mensagem,
                 analise, save_lock, threads>>

\* The module as imported: the learned file is loaded once.  The file may
\* hold nothing, text that is not JSON, a JSON scalar, a mapping written by
\* hand or by an earlier process, or a JSON array.
InitLematizador ==
  /\ classificacao_cache = <<>>
  /\ metricas = [cache_hits |-> 0, cache_misses |-> 0]
  /\ agora = 0
  /\ \E a \in { [forma |-> "ausente", dados |-> <<>>],
                [forma |-> "invalido", dados |-> <<>>],
                [forma |-> "escalar", dados |-> <<>>],
                [forma |-> "dict",
                 dados |-> ("envie" :> "envio") @@ ("enviavam" :> "envia")],
                [forma |-> "list", dados |-> ("correndo" :> "correndo")] } :
       lematizador = carregar_dicionario_aprendido(
                       [EstadoInicialDoLematizador EXCEPT !.arquivo = a])
  /\ spacy_instalado \in BOOLEAN
  /\ requisicoes = 0
  /\ chamada = [tipo |-> "nenhuma"]
  /\ mensagem = ""
  /\ analise = Pendente
  /\ save_lock = 0
  /\ threads = [t \in Threads |-> "fora"]

\* The words looked up are a static key, two forms the learned file may
\* hold, two verbs the language model knows, and a word nobody knows.
NextLematizador ==
  \/ /\ requisicoes < MaxChamadas
     /\ \E palavra \in {"envie", "envia", "enviavam", "correndo", "conecte", "mesa"},
           io_ok \in BOOLEAN, sonda_ok \in BOOLEAN :
          \E doc \in {SpacyDoc(palavra), [lemma |-> palavra, pos |-> "ERRO"],
                      [lemma |-> palavra, pos |-> "VAZIO"]} :
            LematizarPalavra(palavra, io_ok, doc, sonda_ok)
  \/ /\ requisicoes < MaxChamadas
     /\ \E par \in {<<"envie", "envio">>, <<"mesa", "mesar">>}, io_ok \in BOOLEAN :
          AdicionarAoDicionario(par[1], par[2], io_ok)
  \/ /\ requisicoes < MaxChamadas
     /\ \E v \in {<<"conectar", {"conecte"}>>, <<"ligar", {"conecte", "correndo"}>>} :
          AdicionarVerbo(v[1], v[2])
  \/ /\ requisicoes < MaxChamadas
     /\ \E io_ok \in BOOLEAN : SalvarDicionario(io_ok)
  \/ requisicoes < MaxChamadas /\ CarregarDicionario
  \/ requisicoes < MaxChamadas /\ ResetarDicionario
  \/ requisicoes < MaxChamadas /\ LimparCache

SpecLematizador == InitLematizador /\ [][NextLematizador]_vars

(***************************************************************************)
(* Batched persistence: with the model available and no learned file, new  *)
(* verbs are looked up one after the other, each for the first time, and   *)
(* the writes of the learned file succeed or fail.                         *)
(***************************************************************************)
\* verbs the static map does not hold and the language model knows
VerbosNovos ==
  {"correndo", "conecte", "nadando", "pulando", "cantando", "dormindo", "pintando",
   "lavando", "andando", "jogando", "comendo"}

InitLote ==
  /\ classificacao_cache = <<>>
  /\ metricas = [cache_hits |-> 0, cache_misses |-> 0]
  /\ agora = 0
  /\ lematizador = EstadoInicialDoLematizador
  /\ spacy_instalado = TRUE
  /\ requisicoes = 0
  /\ chamada = [tipo |-> "nenhuma"]
  /\ mensagem = ""
  /\ analise = Pendente
  /\ save_lock = 0
  /\ threads = [t \in Threads |-> "fora"]

NextLote ==
  \E palavra \in VerbosNovos \ DOMAIN lematizador.memo, io_ok \in BOOLEAN :
    LematizarPalavra(palavra, io_ok, SpacyDoc(palavra), TRUE)

SpecLote == InitLote /\ [][NextLote]_vars

(***************************************************************************)
(* Concurrent learners: each thread adds a verb to the learned dictionary  *)
(* and goes through salvar_dicionario_aprendido statement by statement.    *)
(* threads[t] is "fora" outside the function, "teste" at the batch test,   *)
(* "espera" at the with statement, "escrita" and "zerar" inside it with    *)
(* the lock held, "saida" at its end.                                      *)
(***************************************************************************)
\* adicionar_ao_dicionario_aprendido(palavra, lemma) up to its call of
\* salvar_dicionario_aprendido()
Aprender(t, palavra) ==
  /\ threads[t] = "fora"
  /\ palavra \notin DOMAIN lematizador.aprendido
  /\ lematizador' =
       [lematizador EXCEPT !.aprendido = (palavra :> SpacyDoc(palavra).lemma) @@ @,
                           !.pendentes = @ + 1]
  /\ threads' = [threads EXCEPT ![t] = "teste"]
  /\ UNCHANGED <<classificacao_cache, metricas, agora, spacy_instalado, requisicoes,
                 chamada, mensagem, analise, save_lock>>

\* if not force and _palavras_desde_ultimo_save < BATCH_SAVE_SIZE: return
Testar(t) ==
  /\ threads[t] = "teste"
  /\ threads' = [threads EXCEPT ![t] = IF lematizador.pendentes < BATCH_SAVE_SIZE
                                       THEN "fora" ELSE "espera"]
  /\ UNCHANGED <<classificacao_cache, metricas, agora, lematizador, spacy_instalado,
                 requisicoes, chamada, mensagem, analise, save_lock>>

\* Entering the with statement without waiting for the lock to be free.
\* C16 tells it from Adquirir.
AdquirirSemEsperar(t) ==
  /\ threads[t] = "espera"
  /\ save_lock' = t
  /\ threads' = [threads EXCEPT ![t] = "escrita"]
  /\ UNCHANGED <<classificacao_cache, metricas, agora, lematizador, spacy_instalado,
                 requisicoes, chamada, mensagem, analise>>

\* with _save_lock: the thread waits until the lock is free and takes it
Adquirir(t) ==
  /\ threads[t] = "espera"
  /\ save_lock = 0
  /\ save_lock' = t
  /\ threads' = [threads EXCEPT ![t] = "escrita"]
  /\ UNCHANGED <<classificacao_cache, metricas, agora, lematizador, spacy_instalado,
                 requisicoes, chamada, mensagem, analise>>

\* mkdir, open and json.dump of the dictionary as it is now (sort_keys takes
\* the items in one step); an exception is caught inside the with
\* statement.  The record of the call counts the writes that failed so far.
Gravar(t, io_ok) ==
  /\ threads[t] = "escrita"
  /\ chamada' = [tipo |-> "salvar_dicionario_aprendido", thread |-> t, io_ok |-> io_ok,
                 falhas |-> (IF chamada.tipo = "nenhuma" THEN 0 ELSE chamada.falhas)
                              + (IF io_ok THEN 0 ELSE 1)]
  /\ lematizador' =
       IF io_ok
       THEN [lematizador EXCEPT !.arquivo = [forma |-> lematizador.forma,
                                             dados |-> lematizador.aprendido]]
       ELSE lematizador
  /\ threads' = [threads EXCEPT ![t] = IF io_ok THEN "zerar" ELSE "saida"]
  /\ UNCHANGED <<classificacao_cache, metricas, agora, spacy_instalado, requisicoes,
                 mensagem, analise, save_lock>>

\* _palavras_desde_ultimo_save = 0
Zerar(t) ==
  /\ threads[t] = "zerar"
  /\ lematizador' = [lematizador EXCEPT !.pendentes = 0]
  /\ threads' = [threads EXCEPT ![t] = "saida"]
  /\ UNCHANGED <<classificacao_cache, metricas, agora, spacy_instalado, requisicoes,
                 chamada, mensagem, analise, save_lock>>

\* the end of the with statement releases the lock
Liberar(t) ==
  /\ threads[t] = "saida"
  /\ save_lock' = 0
  /\ threads' = [threads EXCEPT ![t] = "fora"]
  /\ UNCHANGED <<classificacao_cache, metricas, agora, lematizador, spacy_instalado,
                 requisicoes, chamada, mensagem, analise>>

NextGravacao ==
  \/ \E t \in Threads, palavra \in VerbosNovos : Aprender(t, palavra)
  \/ \E t \in Threads : Testar(t)
  \/ \E t \in Threads : Adquirir(t)
  \/ \E t \in Threads, io_ok \in BOOLEAN : Gravar(t, io_ok)
  \/ \E t \in Threads : Zerar(t)
  \/ \E t \in Threads : Liberar(t)

SpecGravacao == InitLote /\ [][NextGravacao]_vars

(***************************************************************************)
(* Properties of the service (Spec).                                       *)
(***************************************************************************)

\* C2: processar_mensagem never raises to its caller: whatever the payload
\* (message of any type, ctx absent, not a mapping or with a non-numeric
\* temperature, history of any shape) and whether or not the dictionary can
\* be saved or spaCy loaded, every call returns a result value.
C2_NuncaLevantaExcecao ==
  chamada.tipo = "processar_mensagem" => chamada.resultado.tipo = "resultado"

\* C3: a call with a non-empty message whose key is not in the cache is a
\* miss that stores its response under the key before returning; a call
\* with a message whose key is in the cache (stored by an earlier call, not
\* expired, not evicted) is a hit that returns the stored result.
C3_FalhaGuardaEAcertoDevolve ==
  [][( /\ requisicoes' = requisicoes + 1
       /\ chamada'.tipo = "processar_mensagem"
       /\ Strip(PyStr(chamada'.payload.message)) # "" )
       => \E key \in {gerar_cache_key(Strip(PyStr(chamada'.payload.message)))} :
            IF TemChaveViva(classificacao_cache, key, agora)
            THEN /\ chamada'.cache_hit
                 /\ chamada'.resultado =
                      classificacao_cache[Posicao(classificacao_cache, key)].valor
            ELSE /\ ~chamada'.cache_hit
                 /\ TemChaveViva(classificacao_cache', key, agora)
                 /\ classificacao_cache'[Posicao(classificacao_cache', key)].valor =
                      chamada'.resultado]_vars

\* C4: a cache hit equals a fresh computation: the category, reasons and
\* scopes returned from the cache for a message are those the pipeline
\* computes for that message.
C4_AcertoIgualAComputoFresco ==
  (chamada.tipo = "processar_mensagem" /\ chamada.cache_hit) =>
    \A io_ok \in BOOLEAN :
      \E m \in {extrair_mensagem_do_payload(chamada.payload)} :
      \E t \in {TextoNormalizado(m)} :
      \E c \in {determinar_categoria(lematizador, m, t, spacy_instalado, io_ok)} :
      \E fresco \in {Pipeline(chamada.payload, m, t, c).resultado} :
        fresco.tipo = "resultado" =>
          fresco.classification = chamada.resultado.classification

\* C5: a call whose message is missing or empty after trimming returns the
\* fixed sentinel (error EMPTY_INPUT with the fixed assistant reply) and
\* changes nothing else: the cache, the hit and miss counters and the
\* lemmatizer stay as they were.
C5_EntradaVaziaDevolveSentinela ==
  [][( /\ requisicoes' = requisicoes + 1
       /\ chamada'.tipo = "processar_mensagem"
       /\ Strip(PyStr(chamada'.payload.message)) = "" )
       => /\ chamada'.resultado =
               [tipo |-> "resultado",
                payload |-> chamada'.payload,
                error |-> "EMPTY_INPUT",
                openaiPayload |->
                  [messages |-> <<[role |-> "assistant",
                                  content |-> "Não recebi sua mensagem. Pode reenviar, por favor?"]>>]]
          /\ ~chamada'.cache_hit
          /\ UNCHANGED <<classificacao_cache, metricas, lematizador>>]_vars

\* C5 happens: a whitespace-only message answered by the sentinel after an
\* earlier call filled the cache and counted a miss.
C5_Testemunha ==
  /\ chamada.tipo = "processar_mensagem"
  /\ chamada.payload.message = [tipo |-> "str", valor |-> "  "]
  /\ chamada.resultado.tipo = "resultado"
  /\ "error" \in DOMAIN chamada.resultado
  /\ metricas.cache_misses > 0
  /\ classificacao_cache # <<>>

\* C21: a stored result is never returned once the TTL has elapsed since
\* the entry was inserted: an entry expires TTL after its insertion, a hit
\* finds the entry unexpired and leaves its expiry where it was, and the
\* first request for a message whose entry has expired is a miss that
\* recomputes and stores a new entry under the key.
C21_TTLLimitado ==
  /\ [](\A i \in 1..Len(classificacao_cache) :
          classificacao_cache[i].expira <= agora + CacheTTL)
  /\ [][( /\ requisicoes' = requisicoes + 1
          /\ Strip(PyStr(chamada'.payload.message)) # "" )
        => \E key \in {gerar_cache_key(Strip(PyStr(chamada'.payload.message)))} :
             /\ chamada'.cache_hit =>
                  \E i \in 1..Len(classificacao_cache) :
                    /\ classificacao_cache[i].key = key
                    /\ agora < classificacao_cache[i].expira
                    /\ \E j \in 1..Len(classificacao_cache') :
                         /\ classificacao_cache'[j].key = key
                         /\ classificacao_cache'[j].expira = classificacao_cache[i].expira
             /\ (\E i \in 1..Len(classificacao_cache) :
                    /\ classificacao_cache[i].key = key
                    /\ ~Vivo(classificacao_cache[i], agora))
                  => /\ ~chamada'.cache_hit
                     /\ \E j \in 1..Len(classificacao_cache') :
                          /\ classificacao_cache'[j].key = key
                          /\ classificacao_cache'[j].expira = agora + CacheTTL
                          /\ classificacao_cache'[j].valor = chamada'.resultado]_vars

\* C23: a call of processar_mensagem whose key is present and unexpired
\* returns the stored result, adds one to cache_hits, and leaves
\* cache_misses, the cached keys, the stored values with their expiry and
\* the lemmatizer state (the classifier is not run) as they were.  Every
\* request with a non-empty message adds one to exactly one of cache_hits
\* and cache_misses.
C23_EfeitoDoAcerto ==
  [][( /\ requisicoes' = requisicoes + 1
       /\ Strip(PyStr(chamada'.payload.message)) # "" )
     => /\ \/ /\ metricas'.cache_hits = metricas.cache_hits + 1
              /\ metricas'.cache_misses = metricas.cache_misses
           \/ /\ metricas'.cache_hits = metricas.cache_hits
              /\ metricas'.cache_misses = metricas.cache_misses + 1
        /\ \E key \in {gerar_cache_key(Strip(PyStr(chamada'.payload.message)))} :
             ( /\ chamada'.tipo = "processar_mensagem"
               /\ TemChaveViva(classificacao_cache, key, agora) )
             => /\ chamada'.cache_hit
                /\ chamada'.resultado =
                     classificacao_cache[Posicao(classificacao_cache, key)].valor
                /\ metricas'.cache_hits = metricas.cache_hits + 1
                /\ metricas'.cache_misses = metricas.cache_misses
                /\ {classificacao_cache'[i] : i \in 1..Len(classificacao_cache')}
                     = {classificacao_cache[i] : i \in 1..Len(classificacao_cache)}
                /\ Len(classificacao_cache') = Len(classificacao_cache)
                /\ lematizador' = lematizador]_vars

\* C23 happens: a hit answered a request after the miss that stored the
\* entry had run the classifier.
C23_Testemunha ==
  /\ chamada.tipo = "processar_mensagem"
  /\ chamada.cache_hit
  /\ metricas = [cache_hits |-> 1, cache_misses |-> 1]
  /\ DOMAIN lematizador.memo # {}
  /\ Len(classificacao_cache) = 1
  /\ classificacao_cache[1].valor = chamada.resultado

\* C27: a stored cache value is never modified after it is stored: as long
\* as an entry stays in the cache (same key, same expiry), no step changes
\* its value; and what the webhook route adds to the result it hands on
\* never shows in what a call of processar_mensagem returns.
C27_ValorGuardadoImutavel ==
  /\ [][\A i \in 1..Len(classificacao_cache) :
          \A j \in 1..Len(classificacao_cache') :
            ( /\ classificacao_cache'[j].key = classificacao_cache[i].key
              /\ classificacao_cache'[j].expira = classificacao_cache[i].expira )
            => classificacao_cache'[j].valor = classificacao_cache[i].valor]_vars
  /\ [](chamada.tipo = "processar_mensagem"
          => "webhook" \notin DOMAIN chamada.resultado)

\* C28: the request-specific parts of a response are those of the request
\* being answered, also on a cache hit: the echoed payload fields, the
\* trimmed message, and the messages, model and temperature of the
\* openaiPayload are what the request's own payload gives.
C28_RespostaDaPropriaRequisicao ==
  ( /\ chamada.tipo \in {"processar_mensagem", "webhook_whatsapp"}
    /\ chamada.resultado.tipo = "resultado" )
  => /\ chamada.resultado.payload = chamada.payload
     /\ "error" \notin DOMAIN chamada.resultado
          => /\ chamada.resultado.mensagem_completa =
                  extrair_mensagem_do_payload(chamada.payload)
             /\ \E proprio \in
                    {construir_payload(chamada.payload,
                                       chamada.resultado.classification.bucket,
                                       extrair_mensagem_do_payload(chamada.payload),
                                       TextoNormalizado(
                                         extrair_mensagem_do_payload(chamada.payload)))} :
                  proprio.tipo = "tupla"
                    => chamada.resultado.openaiPayload = proprio.payload

(***************************************************************************)
(* Properties of the classifier and the scope detector                     *)
(* (SpecClassificador).                                                    *)
(***************************************************************************)

\* C1: determinar_categoria returns one of exactly four categories, system,
\* messages, user or unclear, and no other string.
C1_CategoriaEntreAsQuatro ==
  analise.classificada => analise.categoria \in {"system", "messages", "user", "unclear"}

C7_NarrativaNuncaSystem ==
  analise.classificada =>
    \E t \in {TextoNormalizado(mensagem)} :
      eh_narrativa_terceira_pessoa(t) =>
        /\ analise.categoria # "system"
        /\ GruposAntesDaIntegracao(mensagem, t) = Nenhum => analise.categoria = "user"

\* C8: a message with a capability-question phrase is never classified
\* system; unless a pre-filter, the acknowledgement rule, an ambiguity
\* detector or the long-conversational exception decides first, it is
\* unclear when it has an uncertainty expression about an action or is an
\* unresolved multiple-choice question, and messages otherwise.
C8_PerguntaDeCapacidadeNuncaSystem ==
  analise.classificada =>
    \E t \in {TextoNormalizado(mensagem)} :
      AnyIn(perguntas_capacidade, t) =>
        /\ analise.categoria # "system"
        /\ Primeiro(<<PreFiltroCurto(mensagem, t),
                      MensagemDeTeste(mensagem, t),
                      MensagemConversacional(t),
                      DetectoresDeAmbiguidade(mensagem, t),
                      MensagemLongaConversacional(mensagem, t)>>) = Nenhum
           => analise.categoria =
                IF \/ IncertezaSobreAcao(t) # Nenhum
                   \/ PerguntaComOpcoes(mensagem, t) # Nenhum
                THEN "unclear" ELSE "messages"

\* C8 happens: a capability question with a system keyword and an
\* integration verb is classified messages.
C8_Testemunha ==
  /\ analise.classificada
  /\ AnyIn(perguntas_capacidade, TextoNormalizado(mensagem))
  /\ palavras_encontradas(TextoNormalizado(mensagem)) # <<>>
  /\ \E lemas \in SequenciasDeLemas(Split(TextoNormalizado(mensagem))) :
       tem_verbo_integracao(lemas)
  /\ analise.categoria = "messages"

\* C9: for a text with a spreadsheet keyword that is classified system,
\* detectar_scopes returns exactly the spreadsheets scope and the drive
\* scope, whatever else the text contains.
C9_PlanilhaDaDoisScopes ==
  ( /\ analise.classificada
    /\ analise.detectados
    /\ analise.categoria = "system"
    /\ AnyIn(palavras_planilha, TextoNormalizado(mensagem)) )
  => /\ Len(analise.scope) = 2
     /\ {analise.scope[1], analise.scope[2]} = {ScopeSheets, ScopeDrive}

\* C10: when no entry of the pattern table matches and the text has an
\* email action with an email word and a calendar action or calendar word,
\* detectar_scopes returns the mail scope alone if the text has no
\* multi-intent connector, and the mail scope followed by the calendar
\* scope if it has one.
C10_PrecedenciaDeScopes ==
  analise.detectados =>
    \E t \in {TextoNormalizado(mensagem)} :
      ( /\ ~TemPadrao(SCOPE_CACHE, t)
        /\ tem_acao_email(t) /\ tem_palavra_email(t)
        /\ tem_acao_calendario(t) \/ tem_palavra_calendario(t) )
      => analise.scope = IF tem_multiplas_acoes(t)
                         THEN <<ScopeMail, ScopeCalendar>>
                         ELSE <<ScopeMail>>

\* C10 happens: an email action with a calendar word and no connector gets
\* the mail scope alone.
C10_Testemunha ==
  /\ analise.detectados
  /\ ~TemPadrao(SCOPE_CACHE, TextoNormalizado(mensagem))
  /\ tem_acao_email(TextoNormalizado(mensagem))
  /\ tem_palavra_email(TextoNormalizado(mensagem))
  /\ tem_palavra_calendario(TextoNormalizado(mensagem))
  /\ ~tem_multiplas_acoes(TextoNormalizado(mensagem))
  /\ analise.scope = <<ScopeMail>>

\* C11: detectar_scopes returns no scope token more than once, whichever
\* path produced the list (pattern table, action precedence or keyword
\* fallback).
C11_ScopesSemRepeticao ==
  analise.detectados =>
    \A i, j \in 1..Len(analise.scope) :
      i # j => analise.scope[i] # analise.scope[j]

\* C11 happens: the keyword fallback met a spreadsheet word and the word
\* drive and returned the drive scope once.
C11_Testemunha ==
  /\ analise.detectados
  /\ ~TemPadrao(SCOPE_CACHE, TextoNormalizado(mensagem))
  /\ ScopesPorAcao(TextoNormalizado(mensagem)) = <<>>
  /\ AnyIn(palavras_planilha, TextoNormalizado(mensagem))
  /\ In("drive", TextoNormalizado(mensagem))
  /\ analise.scope = <<ScopeSheets, ScopeDrive>>

\* C24: a message decided by the fallback is classified user only if it
\* has several sentences, is longer than 150 characters or contains a
\* personal pronoun; in particular a single-sentence message of 20 to 150
\* characters with no sentence terminator, no personal pronoun and no
\* interrogative word is classified messages, and a single fragment under
\* 10 characters is classified unclear.
C24_FallbackPorEliminacao ==
  ( /\ analise.classificada
    /\ analise.motivos # <<>>
    /\ \/ analise.motivos[1] \in
            {"Mensagem longa ou com múltiplas ideias - requer contexto",
             "Contém contexto pessoal",
             "Possível pergunta sem contexto claro",
             "Mensagem curta sem indicadores claros de intenção",
             "Mensagem genérica - classificação por eliminação"}
       \/ /\ analise.motivos[1] \in {"Saudação conversacional",
                                      "Mensagem muito curta sem contexto claro"}
          /\ PreFiltroCurto(mensagem, TextoNormalizado(mensagem)) = Nenhum
          /\ SaudacaoInterrogativa(mensagem, TextoNormalizado(mensagem)) = Nenhum )
  => \E t \in {TextoNormalizado(mensagem)} :
     \E pronome \in
          {AnyIn(<<" meu ", " minha ", " meus ", " minhas ", " eu ", " me ", " comigo ">>,
                 " " \o t \o " ")} :
     \E fragmento \in {CountChars(mensagem, {".", "?", "!"}) = 0} :
       /\ analise.categoria = "user"
            => \/ NonBlankSegments(mensagem, ".") > 1
               \/ NonBlankSegments(mensagem, "?") > 1
               \/ NonBlankSegments(mensagem, "!") > 1
               \/ Len(mensagem) > 150
               \/ pronome
       /\ ( /\ fragmento
            /\ ~pronome
            /\ Len(Strip(mensagem)) >= 20
            /\ Len(mensagem) <= 150
            /\ \A i \in 1..Len(Split(t)) :
                 Split(t)[i] \notin {"como", "quando", "onde", "por que", "porque",
                                     "qual", "que", "quem"} )
            => analise.categoria = "messages"
       /\ (fragmento /\ ~pronome /\ Len(Strip(mensagem)) < 10)
            => analise.categoria = "unclear"

\* C25 as stated: every message of exactly 15 characters and 2 words that
\* the pre-filter does not answer as a greeting or confirmation is
\* classified unclear.
C25_QuinzeCaracteresUnclear ==
  ( /\ analise.classificada
    /\ Len(Strip(mensagem)) = 15
    /\ num_palavras(TextoNormalizado(mensagem)) = 2
    /\ PreFiltroCurto(mensagem, TextoNormalizado(mensagem)).categoria # "user" )
  => analise.categoria = "unclear"

\* C25: the pre-filter applies to a message of exactly 15 characters and 2
\* words: if the pre-filter does not answer it as a greeting or confirmation
\* and it holds an expression of uncertainty, it is classified unclear with
\* the pre-filter's reason; otherwise the pre-filter decides nothing and the
\* message falls through to the later rules, whose category it gets.
C25_FronteiraDoPreFiltro ==
  ( /\ analise.classificada
    /\ Len(Strip(mensagem)) = 15
    /\ num_palavras(TextoNormalizado(mensagem)) = 2
    /\ PreFiltroCurto(mensagem, TextoNormalizado(mensagem)).categoria # "user" )
  => IF AnyIn(<<"nao sei", "sei la", "talvez", "acho que">>, TextoNormalizado(mensagem))
     THEN /\ analise.categoria = "unclear"
          /\ analise.motivos = <<"Expressão de incerteza - precisa de esclarecimento">>
     ELSE /\ PreFiltroCurto(mensagem, TextoNormalizado(mensagem)) = Nenhum
          /\ analise.motivos[1] \notin
               {"Expressão de incerteza - precisa de esclarecimento",
                "Palavra solta sem contexto - precisa de esclarecimento",
                "Referência ambígua - precisa de contexto",
                "Pergunta incompleta - precisa de mais informação"}

\* C25 happens: a 15-character, 2-word expression of uncertainty was
\* classified unclear by the pre-filter.
C25_Testemunha ==
  /\ analise.classificada
  /\ mensagem = "talvez responda"
  /\ Len(Strip(mensagem)) = 15
  /\ num_palavras(TextoNormalizado(mensagem)) = 2
  /\ analise.categoria = "unclear"
  /\ analise.motivos = <<"Expressão de incerteza - precisa de esclarecimento">>

\* C30: the dual-intent detector answers unclear only for a text with a
\* connector and at least two different action verbs: when it decides, two
\* different words of the text are action verbs, so that one infinitive
\* (which contains its own third-person form) does not count as two.
C30_DuasAcoesDiferentes ==
  ( /\ analise.classificada
    /\ IntencaoDupla(TextoNormalizado(mensagem)) # Nenhum
    /\ analise.motivos = IntencaoDupla(TextoNormalizado(mensagem)).motivos )
  => \E t \in {TextoNormalizado(mensagem)} :
       /\ AnyIn(<<" ou ", " e ", " / ", " e/ou ">>, t)
       /\ Cardinality({Split(t)[i] : i \in 1..Len(Split(t))}
                        \cap {verbos_encontrados_lista(t)[k] :
                                k \in 1..Len(verbos_encontrados_lista(t))}) >= 2

\* C20: two successive classifications of a message in one process give
\* the same category and the same reasons, also when the first call changed
\* shared state (memoized lemmas, learned a verb, probed for the model).
C20_ClassificacaoDeterministica ==
  analise.repetida =>
    /\ analise.categoria2 = analise.categoria
    /\ analise.motivos2 = analise.motivos

\* C20 happens: the first classification learned and memoized a verb, and
\* the message was classified again.
C20_Testemunha ==
  /\ analise.repetida
  /\ lematizador.disponivel = "True"
  /\ "sincronize" \in DOMAIN lematizador.aprendido
  /\ "sincronize" \in DOMAIN lematizador.memo
  /\ lematizador.memo["sincronize"] = "sincronizar"

(***************************************************************************)
(* Properties of the lemmatizer (SpecLematizador).                         *)
(***************************************************************************)
\* C12: static entries take precedence over learned ones: a lookup of a key
\* of the static map returns the static value and raises nothing, whatever
\* lookups, learning, loads, adicionar_verbo and resets came before, also
\* when the learned dictionary holds another lemma for the key or the word
\* was memoized before it became a static key.
C12_EstaticoTemPrecedencia ==
  ( /\ chamada.tipo = "lematizar_palavra"
    /\ chamada.palavra \in DOMAIN lematizador.estatico \/ NoEstatico(chamada.palavra) )
  => /\ chamada.erro = ""
     /\ chamada.lemma = IF chamada.palavra \in DOMAIN lematizador.estatico
                        THEN lematizador.estatico[chamada.palavra]
                        ELSE LemaEstatico(chamada.palavra)

\* C12 happens: a word the model had lemmatized, learned and memoized was
\* made a key of the static map with another infinitive, and the lookup
\* after that returned the static value.
C12_Testemunha ==
  /\ chamada.tipo = "lematizar_palavra"
  /\ chamada.palavra = "conecte"
  /\ lematizador.forma = "dict"
  /\ "conecte" \in DOMAIN lematizador.aprendido
  /\ "conecte" \in DOMAIN lematizador.estatico
  /\ lematizador.aprendido["conecte"] = "conectar"
  /\ lematizador.estatico["conecte"] = "ligar"
  /\ chamada.lemma = "ligar"

\* C13: lemma idempotence: when a known verb form (a key of the static map
\* or of the learned dictionary) has been looked up and the lemma returned
\* is looked up next, the second lookup returns that same lemma.
C13_LemaIdempotente ==
  [][( /\ chamada.tipo = "lematizar_palavra"
       /\ chamada.erro = ""
       /\ \/ chamada.palavra \in DOMAIN lematizador.estatico
          \/ NoEstatico(chamada.palavra)
          \/ chamada.palavra \in DOMAIN lematizador.aprendido
       /\ requisicoes' = requisicoes + 1
       /\ chamada'.tipo = "lematizar_palavra"
       /\ chamada'.palavra = chamada.lemma )
     => /\ chamada'.erro = ""
        /\ chamada'.lemma = chamada.lemma]_vars

\* C14: the learned dictionary only grows: no step of the running process
\* removes an entry or gives a learned key another lemma, and a key is
\* added only for the word of the call, by the model fallback tagging it as
\* a verb or by adicionar_ao_dicionario_aprendido.
C14_AprendidoSoCresce ==
  [][/\ \A w \in DOMAIN lematizador.aprendido :
          /\ w \in DOMAIN lematizador'.aprendido
          /\ lematizador'.aprendido[w] = lematizador.aprendido[w]
     /\ \A w \in DOMAIN lematizador'.aprendido \ DOMAIN lematizador.aprendido :
          /\ chamada'.palavra = w
          /\ \/ chamada'.tipo = "adicionar_ao_dicionario_aprendido"
             \/ /\ chamada'.tipo = "lematizar_palavra"
                /\ lematizador'.disponivel = "True"
                /\ SpacyDoc(w).pos = "VERB"]_vars

\* C18: a learned file that is absent, unreadable or malformed (not JSON,
\* or JSON that is not a mapping) is not fatal: after the import the learned
\* dictionary is an empty mapping, and no lookup raises a TypeError.
C18_ArquivoCorrompidoNaoFatal ==
  /\ (requisicoes = 0 /\ lematizador.arquivo.forma # "dict")
       => /\ DOMAIN lematizador.aprendido = {}
          /\ lematizador.forma = "dict"
  /\ chamada.tipo = "lematizar_palavra" => chamada.erro # "TypeError"

\* C19: an unavailable fallback degrades to identity: no lookup lets an
\* exception of the model's import or load through, the probe's answer once
\* known is never asked for again, and with the model unavailable a first
\* lookup of a word in neither dictionary returns the word unchanged.
C19_SemModeloDevolveAPalavra ==
  [][( /\ requisicoes' = requisicoes + 1
       /\ chamada'.tipo = "lematizar_palavra" )
     => /\ chamada'.erro # "Exception"
        /\ lematizador.disponivel # "None"
             => lematizador'.disponivel = lematizador.disponivel
        /\ ( /\ lematizador'.disponivel = "False"
             /\ chamada'.palavra \notin DOMAIN lematizador.memo
             /\ chamada'.palavra \notin DOMAIN lematizador.estatico
             /\ ~NoEstatico(chamada'.palavra)
             /\ chamada'.palavra \notin DOMAIN lematizador.aprendido )
             => chamada'.lemma = chamada'.palavra]_vars

\* C29: memoization of lematizar_palavra is transparent: the lemma a lookup
\* returns is the one an unmemoized lookup gives against the dictionaries
\* as they are at the call, in the order static, learned, fallback,
\* identity, whatever lookups and dictionary changes came before.
C29_MemoTransparente ==
  [][( /\ requisicoes' = requisicoes + 1
       /\ chamada'.tipo = "lematizar_palavra"
       /\ chamada'.erro = ""
       /\ lematizador.forma = "dict" )
     => chamada'.lemma \in
          IF chamada'.palavra \in DOMAIN lematizador.estatico
            THEN {lematizador.estatico[chamada'.palavra]}
          ELSE IF NoEstatico(chamada'.palavra)
            THEN {LemaEstatico(chamada'.palavra)}
          ELSE IF chamada'.palavra \in DOMAIN lematizador.aprendido
            THEN {lematizador.aprendido[chamada'.palavra]}
          ELSE {chamada'.palavra, SpacyDoc(chamada'.palavra).lemma}]_vars

C17_FalhaDeEscritaEngolida ==
  /\ [][( /\ requisicoes' = requisicoes + 1
          /\ chamada'.tipo = "lematizar_palavra"
          /\ ~chamada'.io_ok
          /\ DOMAIN lematizador'.aprendido # DOMAIN lematizador.aprendido
          /\ lematizador.pendentes + 1 >= BATCH_SAVE_SIZE )
        => \E r \in {lematizar_palavra_com(lematizador, chamada'.palavra, spacy_instalado,
                                            TRUE, SpacyDoc(chamada'.palavra))} :
             /\ chamada'.erro = ""
             /\ chamada'.lemma = r.lemma
             /\ lematizador'.aprendido = r.L.aprendido
             /\ lematizador'.memo = r.L.memo
             /\ lematizador'.pendentes = lematizador.pendentes + 1]_vars
  /\ [][( /\ lematizador.pendentes >= BATCH_SAVE_SIZE
          /\ DOMAIN lematizador'.aprendido # DOMAIN lematizador.aprendido
          /\ chamada'.io_ok )
        => /\ lematizador'.arquivo.dados = lematizador'.aprendido
           /\ lematizador'.pendentes = 0]_vars

\* C17 happens: the write caused by the tenth new entry failed, the entry
\* is in the learned dictionary, nothing was written and the count stands
\* at ten.
C17_Testemunha ==
  /\ chamada.tipo = "lematizar_palavra"
  /\ ~chamada.io_ok
  /\ chamada.erro = ""
  /\ chamada.lemma = SpacyDoc(chamada.palavra).lemma
  /\ chamada.palavra \in DOMAIN lematizador.aprendido
  /\ Cardinality(DOMAIN lematizador.aprendido) = BATCH_SAVE_SIZE
  /\ lematizador.pendentes = BATCH_SAVE_SIZE
  /\ lematizador.arquivo.forma = "ausente"

(***************************************************************************)
(* Properties of concurrent learners (SpecGravacao).                       *)
(***************************************************************************)
\* C16: writes of the learned file are mutually exclusive: at most one
\* thread is inside the with statement of salvar_dicionario_aprendido, and
\* the lock is held by exactly the thread that is inside, so it is free
\* again after every flush, a failed one included.
C16_EscritaExclusiva ==
  /\ Cardinality({t \in Threads : threads[t] \in {"escrita", "zerar", "saida"}}) <= 1
  /\ \A t \in Threads : threads[t] \in {"escrita", "zerar", "saida"} <=> save_lock = t

\* C16 happens: after the failed flush of one thread the other thread, which
\* had been waiting, holds the lock and is about to write.
C16_Testemunha ==
  /\ chamada.tipo = "salvar_dicionario_aprendido"
  /\ ~chamada.io_ok
  /\ chamada.thread = 1
  /\ threads[1] = "fora"
  /\ threads[2] = "escrita"
  /\ save_lock = 2

\* C26: the learned dictionary and its pending counter stay consistent
\* under concurrent learners: when no write has failed and every thread has
\* left adicionar_ao_dicionario_aprendido, the pending count is the number
\* of learned entries added since the last successful flush, that is, of
\* the entries the file does not hold.
C26_ContadorConsistente ==
  ( /\ \A t \in Threads : threads[t] = "fora"
    /\ chamada.tipo = "nenhuma" \/ chamada.falhas = 0 )
  => lematizador.pendentes =
       Cardinality(DOMAIN lematizador.aprendido \ DOMAIN lematizador.arquivo.dados)

(***************************************************************************)
(* Concurrent requests: each thread goes through processar_mensagem and    *)
(* obter_do_cache statement by statement.  threads[t].pc is "fora" outside *)
(* a request, "obter" before the cache lookup, "ler" and "somar" at the    *)
(* two halves of metricas[...] += 1, "calcular" before the pipeline and    *)
(* "salvar" before salvar_no_cache.  chamada counts the lookups that found *)
(* nothing and the requests that raised, and lists the cache writes.       *)
(***************************************************************************)
\* Steps 1 and 2 of processar_mensagem: the message is extracted; the
\* sentinel of an empty message is returned at once
Receber(t, payload) ==
  /\ threads[t].pc = "fora"
  /\ requisicoes < MaxRequests
  /\ requisicoes' = requisicoes + 1
  /\ threads' = [threads EXCEPT ![t] =
                   IF extrair_mensagem_do_payload(payload) = ""
                   THEN [pc |-> "fora"]
                   ELSE [pc |-> "obter", payload |-> payload]]
  /\ UNCHANGED <<classificacao_cache, metricas, agora, lematizador, spacy_instalado,
                 chamada, mensagem, analise, save_lock>>

\* resultado = classificacao_cache.get(cache_key)
Obter(t) ==
  /\ threads[t].pc = "obter"
  /\ \E g \in {CacheGet(classificacao_cache,
                        gerar_cache_key(extrair_mensagem_do_payload(threads[t].payload)),
                        agora)} :
       /\ classificacao_cache' = g.cache
       /\ threads' = [threads EXCEPT ![t] =
                        [pc |-> "ler", payload |-> threads[t].payload, valor |-> g.valor]]
       /\ chamada' = [chamada EXCEPT !.falhas = @ + (IF g.valor.tipo = "None" THEN 1 ELSE 0)]
  /\ UNCHANGED <<metricas, agora, lematizador, spacy_instalado, requisicoes,
                 mensagem, analise, save_lock>>

\* metricas["cache_hits"] += 1 or metricas["cache_misses"] += 1: the item is
\* read
Ler(t) ==
  /\ threads[t].pc = "ler"
  /\ threads' = [threads EXCEPT ![t] =
                   [pc |-> "somar", payload |-> threads[t].payload,
                    valor |-> threads[t].valor,
                    lido |-> IF threads[t].valor.tipo # "None"
                             THEN metricas.cache_hits ELSE metricas.cache_misses]]
  /\ UNCHANGED <<classificacao_cache, metricas, agora, lematizador, spacy_instalado,
                 requisicoes, chamada, mensagem, analise, save_lock>>

\* the item is assigned the value read plus one and obter_do_cache returns;
\* processar_mensagem returns the cached result when there is one
Somar(t) ==
  /\ threads[t].pc = "somar"
  /\ metricas' = IF threads[t].valor.tipo # "None"
                 THEN [metricas EXCEPT !.cache_hits = threads[t].lido + 1]
                 ELSE [metricas EXCEPT !.cache_misses = threads[t].lido + 1]
  /\ threads' = [threads EXCEPT ![t] =
                   IF threads[t].valor.tipo # "None"
                   THEN [pc |-> "fora"]
                   ELSE [pc |-> "calcular", payload |-> threads[t].payload]]
  /\ UNCHANGED <<classificacao_cache, agora, lematizador, spacy_instalado, requisicoes,
                 chamada, mensagem, analise, save_lock>>

\* Steps 4 to 7 of processar_mensagem: the response is built, or an
\* exception leaves the request
Calcular(t, io_ok) ==
  /\ threads[t].pc = "calcular"
  /\ \E mensagem_usuario \in {extrair_mensagem_do_payload(threads[t].payload)} :
     \E p \in {Pipeline(threads[t].payload, mensagem_usuario,
                        TextoNormalizado(mensagem_usuario),
                        determinar_categoria(lematizador, mensagem_usuario,
                                             TextoNormalizado(mensagem_usuario),
                                             spacy_instalado, io_ok))} :
       /\ lematizador' = p.L
       /\ threads' = [threads EXCEPT ![t] =
                        IF EhExcecao(p.resultado)
                        THEN [pc |-> "fora"]
                        ELSE [pc |-> "salvar", payload |-> threads[t].payload,
                              resposta_final |-> p.resultado]]
       /\ chamada' = [chamada EXCEPT !.excecoes = @ + (IF EhExcecao(p.resultado) THEN 1 ELSE 0)]
  /\ UNCHANGED <<classificacao_cache, metricas, agora, spacy_instalado, requisicoes,
                 mensagem, analise, save_lock>>

\* GerenciadorDeCache.salvar_no_cache(cache_key, resposta_final) and the
\* return of processar_mensagem
Salvar(t) ==
  /\ threads[t].pc = "salvar"
  /\ \E cache_key \in {gerar_cache_key(extrair_mensagem_do_payload(threads[t].payload))} :
       /\ classificacao_cache' = salvar_no_cache(classificacao_cache, cache_key,
                                                 threads[t].resposta_final, agora)
       /\ chamada' = [chamada EXCEPT !.escritas =
                        Append(@, [key |-> cache_key,
                                   valor |-> threads[t].resposta_final])]
  /\ threads' = [threads EXCEPT ![t] = [pc |-> "fora"]]
  /\ UNCHANGED <<metricas, agora, lematizador, spacy_instalado, requisicoes,
                 mensagem, analise, save_lock>>

InitConcorrentes ==
  /\ classificacao_cache = <<>>
  /\ metricas = [cache_hits |-> 0, cache_misses |-> 0]
  /\ agora = 0
  /\ lematizador = EstadoInicialDoLematizador
  /\ spacy_instalado \in BOOLEAN
  /\ requisicoes = 0
  /\ chamada = [tipo |-> "requisicoes_concorrentes", falhas |-> 0, excecoes |-> 0,
                escritas |-> <<>>]
  /\ mensagem = ""
  /\ analise = Pendente
  /\ save_lock = 0
  /\ threads = [t \in Threads |-> [pc |-> "fora"]]

NextConcorrentes ==
  \/ \E t \in Threads, payload \in Payloads : Receber(t, payload)
  \/ \E t \in Threads : Obter(t)
  \/ \E t \in Threads : Ler(t)
  \/ \E t \in Threads : Somar(t)
  \/ \E t \in Threads, io_ok \in BOOLEAN : Calcular(t, io_ok)
  \/ \E t \in Threads : Salvar(t)

SpecConcorrentes == InitConcorrentes /\ [][NextConcorrentes]_vars

====
